---- MODULE Spec2Model ----
(***************************************************************************)
(* A model of the native layer of react-native-sherpa-onnx:                *)
(*   - ArchiveHelper::ExtractTarBz2 / Cancel and their JNI bridge          *)
(*     (sherpa-onnx-archive-helper.cpp, sherpa-onnx-archive-jni.cpp);      *)
(*   - the global STT and TTS wrappers and their JNI entry points          *)
(*     (sherpa-onnx-stt-jni.cpp, sherpa-onnx-stt-wrapper.cpp,              *)
(*      sherpa-onnx-tts-jni.cpp, sherpa-onnx-tts-wrapper.cpp);             *)
(*   - the locking of the wrappers, the archive sources and SHA-256        *)
(*     (crypto/sha256.cpp);                                                *)
(*   - model detection (sherpa-onnx-model-detect*.cpp and                  *)
(*     model_detect/sherpa-onnx-model-detect-helper.cpp);                  *)
(*   - audio conversion (sherpa-onnx-audio-convert-jni.cpp).               *)
(* The specifications share the variables:                                 *)
(*   SpecArchive  one extraction thread and a canceller;                   *)
(*   Spec         the bridge thread calling initialize and release on the  *)
(*                two wrappers;                                            *)
(*   SpecStream   the TTS wrapper with streaming generation threads;       *)
(*   SpecMutex    threads taking the wrappers' locks;                      *)
(*   SpecSource   the archive read from its source;                        *)
(*   SpecSha      SHA-256 over bounded messages;                           *)
(*   SpecDetect   STT and TTS detection over bounded directory listings;   *)
(*   SpecConvert  one audio conversion, library call by library call;      *)
(*   SpecAuto     automatic STT detection followed by the configuration    *)
(*                switch of SttWrapper::initialize.                        *)
(* Definitions described as variants change one step of the code; they     *)
(* belong to no specification.                                             *)
(***************************************************************************)
EXTENDS Integers, Sequences, FiniteSets, TLC

VARIABLES
    \* ---- archive extraction (sherpa-onnx-archive-helper.cpp) ----
    cancel_requested_,  \* ArchiveHelper::cancel_requested_
    exPc,               \* position of the thread inside nativeExtractTarBz2
    exForce,            \* argument force of the running call
    exOk,               \* value returned by ExtractTarBz2
    exError,            \* *out_error
    exEntry,            \* the entry whose header was read last: [path, kind]
    exEntries,          \* number of OK header reads of this call
    exBlocks,           \* number of OK data block reads for the current entry
    exResult,           \* the variable result (line 196): what the last read returned
    fs,                 \* the filesystem: [dirs, files, links]
    written,            \* locations the disk writer created or modified in this call
    fileOpen,           \* read_ctx.file is an open FILE*
    readerAlloc,        \* struct archive* archive is allocated
    diskAlloc,          \* struct archive* disk is allocated
    jniEscaped,         \* a C++ exception left a JNI entry point
    cancelHist,         \* history: when Cancel() was last called w.r.t. this call
    total_bytes,        \* size of the source file, in pieces of one fread each
    bytes_read,         \* read_ctx.bytes_read: the pieces fread has handed out
    sha_fed,            \* read_ctx.sha_ctx: the pieces fed to the hash, in order
    out_sha256,         \* *out_sha256
    last_percent,       \* the local last_percent
    exCalls,            \* number of on_progress calls made by this call
    exCall              \* the last on_progress call: [bytes, total, percent]

readVars == <<total_bytes, bytes_read, sha_fed, out_sha256>>
progVars == <<last_percent, exCalls, exCall>>
archVars == <<cancel_requested_, exPc, exForce, exOk, exError, exEntry, exEntries,
              exBlocks, exResult, fs, written, fileOpen, readerAlloc, diskAlloc, jniEscaped,
              cancelHist, readVars, progVars>>

VARIABLES
    \* ---- STT (sherpa-onnx-stt-jni.cpp, sherpa-onnx-stt-wrapper.cpp) ----
    g_stt_wrapper,      \* the global unique_ptr: "nullptr" or "SttWrapper"
    stt_initialized,    \* SttWrapper::Impl::initialized
    stt_modelDir,       \* SttWrapper::Impl::modelDir
    stt_recognizer,     \* SttWrapper::Impl::recognizer (NoEngine = nullopt)
    sttLive,            \* the OfflineRecognizer engine objects that are alive
    sttCalls,           \* history: the last two initialize/release calls on the wrapper
    \* ---- TTS (sherpa-onnx-tts-jni.cpp, sherpa-onnx-tts-wrapper.cpp) ----
    g_tts_wrapper,      \* the global unique_ptr: "nullptr" or "TtsWrapper"
    tts_initialized,    \* TtsWrapper::Impl::initialized
    tts_modelDir,       \* TtsWrapper::Impl::modelDir
    tts_tts,            \* TtsWrapper::Impl::tts (NoEngine = nullopt)
    ttsLive,            \* the OfflineTts engine objects that are alive
    g_tts_skip_next_release,
    \* ---- the thread of the host bridge that calls initialize and release ----
    brPc,               \* its position: "idle" or inside an initialize
    brDir,              \* modelDir of the initialize in progress
    brTemp,             \* the object Create() returned, not yet assigned
    \* ---- TTS streaming ----
    g_tts_stream_cancelled,
    g_tts_active_stream_id,
    activeStreamCallbacks,  \* TtsWrapper::Impl::activeStreamCallbacks: stream id -> callback object
    cbAlive,            \* the callback objects that are alive (not yet destroyed)
    gsPc,               \* position of each thread inside nativeTtsGenerateStream
    gsStreamId,         \* its local streamId
    gsCbPtr,            \* its local shared_ptr cbPtr (NoCb = null)
    gsArg,              \* the raw pointer cbPtr.get() the engine was given
    gsFinalSent,        \* its *finalSent
    gsCancelled,        \* history: nativeTtsCancelStream was called during its Generate
    gsDelivered         \* history: isFinal of each onTtsStreamChunk invocation of the call

sttVars == <<g_stt_wrapper, stt_initialized, stt_modelDir, stt_recognizer, sttLive, sttCalls>>
ttsVars == <<g_tts_wrapper, tts_initialized, tts_modelDir, tts_tts, ttsLive,
             g_tts_skip_next_release>>
brVars == <<brPc, brDir, brTemp>>
cbVars == <<activeStreamCallbacks, cbAlive>>
gsVars == <<g_tts_stream_cancelled, g_tts_active_stream_id, gsPc, gsStreamId, gsCbPtr, gsArg, gsFinalSent, gsCancelled, gsDelivered>>
wrapVars == <<sttVars, ttsVars, brVars, cbVars, gsVars>>

VARIABLES
    \* ---- TtsWrapper::Impl::streamMutex and the threads that take it ----
    streamMutex,        \* the thread that holds the mutex, 0 when it is free
    mxPc,               \* position of each thread inside a TtsWrapper method
    mxOp,               \* the method it runs
    mxId                \* the streamId argument of the method

mxVars == <<streamMutex, mxPc, mxOp, mxId>>

VARIABLES
    \* ---- SHA-256 (crypto/sha256.cpp) ----
    shaPc,              \* "idle", "feeding" (between init and final), "done"
    shaMsg,             \* the byte string to hash
    shaPos,             \* how many of its bytes have been passed to sha256_update
    sha_ctx,            \* the Sha256Context: [total_bits, state, buffer]
    shaOut              \* the digest written by sha256_final

shaVars == <<shaPc, shaMsg, shaPos, sha_ctx, shaOut>>

VARIABLES
    \* ---- model detection (sherpa-onnx-model-detect*.cpp) ----
    detPc,              \* "idle", "stt", "tts", "find" (arguments chosen), "done"
    detIn,              \* the arguments of the call and the directory they name
    detOut              \* what the call returned

detVars == <<detPc, detIn, detOut>>

VARIABLES
    \* ---- audio conversion (sherpa-onnx-audio-convert-jni.cpp) ----
    cvPc,               \* "idle", "running", "returned"
    cvIn,               \* the function called, the format hint, the output format's NOFILE flag
    cvStep,             \* the library call the function is at
    cvHeld,             \* the native resources allocated and not released
    cvRet               \* the string returned: "" on success, else the error

cvVars == <<cvPc, cvIn, cvStep, cvHeld, cvRet>>

\* The variables of the functions that keep no state between calls.
pureVars == <<shaVars, detVars, cvVars>>

\* The variables of the library functions modelled apart from the archive
\* and the wrappers' lifecycle.
libVars == <<mxVars, pureVars>>

vars == <<archVars, wrapVars, libVars>>

-----------------------------------------------------------------------------
(* Bounds of the model *)
MaxEntries == 2     \* OK header reads per extraction
MaxBlocks == 2      \* OK data block reads per entry

-----------------------------------------------------------------------------
(* Paths are sequences of components; <<>> is the root directory. *)

TargetPath == <<"data", "t">>          \* target_path of the call
LinkDest == <<"data">>                 \* where the symlink entries of the archive point
BaseDirs == {<<>>, <<"data">>, <<"etc">>}
\* The stored paths of the entries an archive may hold: plain names, nested
\* names, and ".." as first, middle and final component.
EntryPaths ==
    {<<"a">>, <<"b">>, <<"a", "b">>,
     <<"..">>, <<"..", "b">>, <<"a", "..">>, <<"a", "..", "b">>,
     <<"a", "..", "..", "b">>, <<"..", "..", "etc", "b">>}

EntryKinds == {"file", "dir", "symlink"}

NoEnt == <<"?">>                       \* "no such file or directory"

IsPrefix(p, q) == Len(p) <= Len(q) /\ SubSeq(q, 1, Len(p)) = p

\* std::filesystem::path::parent_path(): lexical, the root is its own parent.
ParentPath(p) == IF p = <<>> THEN <<>> ELSE SubSeq(p, 1, Len(p) - 1)

\* std::filesystem::path::filename(): the last component, ".." included.
Filename(p) == p[Len(p)]

\* The kernel's path walk (stat): symlinks are followed, ".." is the parent of
\* the directory reached so far, a missing component is an error.
RECURSIVE Walk(_, _, _, _)
Walk(f, path, i, cur) ==
    IF cur = NoEnt \/ i > Len(path) THEN cur
    ELSE IF path[i] = ".." THEN Walk(f, path, i + 1, ParentPath(cur))
    ELSE LET nxt == Append(cur, path[i]) IN
         IF nxt \in f.links THEN Walk(f, path, i + 1, LinkDest)
         ELSE IF nxt \in f.dirs THEN Walk(f, path, i + 1, nxt)
         ELSE IF nxt \in f.files /\ i = Len(path) THEN nxt
         ELSE NoEnt

\* std::filesystem::exists(p)
Exists(f, path) == Walk(f, path, 1, <<>>) # NoEnt

\* std::filesystem::canonical(p), for a path that exists
Canonical(f, path) == Walk(f, path, 1, <<>>)

\* Lines 130-133: canonical target, with its trailing separator the prefix
\* test below is a test on whole components.
CanonicalTarget(f) == Canonical(f, TargetPath)

\* Lines 221-223: full_path = target_path + "/" + entry_path
FullPath(entryPath) == TargetPath \o entryPath

\* Lines 236-238: walk upward until an existing ancestor is found.
RECURSIVE NearestExisting(_, _)
NearestExisting(f, parent) ==
    IF Exists(f, parent) \/ parent = ParentPath(parent) THEN parent
    ELSE NearestExisting(f, ParentPath(parent))

\* Lines 226-249: canonical form of the nearest existing ancestor of the
\* parent, plus the final component of the candidate path.
CanonicalEntry(f, full) ==
    LET parent == ParentPath(full)
        anc == IF Exists(f, parent) THEN parent ELSE NearestExisting(f, parent)
        canon == IF Exists(f, anc) THEN Canonical(f, anc) ELSE CanonicalTarget(f)
    IN Append(canon, Filename(full))

\* Line 252: canonical_entry.find(canonical_target) != 0 blocks the entry.
PathAllowed(f, full) == IsPrefix(CanonicalTarget(f), CanonicalEntry(f, full))

-----------------------------------------------------------------------------
(* The disk writer (archive_write_header of libarchive), opened at lines     *)
(* 180-192 without the SECURE_NODOTDOT / SECURE_SYMLINKS options: it walks   *)
(* the pathname as the kernel does, creating the directories that miss.      *)

\* The directory the parent components lead to, creating what is missing:
\* [ok, cur, made].
RECURSIVE MkParents(_, _, _, _, _)
MkParents(f, path, i, cur, made) ==
    IF i >= Len(path) THEN [ok |-> TRUE, cur |-> cur, made |-> made]
    ELSE IF path[i] = ".." THEN MkParents(f, path, i + 1, ParentPath(cur), made)
    ELSE LET nxt == Append(cur, path[i]) IN
         IF nxt \in f.links THEN MkParents(f, path, i + 1, LinkDest, made)
         ELSE IF nxt \in f.dirs \/ nxt \in made THEN MkParents(f, path, i + 1, nxt, made)
         ELSE IF nxt \in f.files THEN [ok |-> FALSE, cur |-> cur, made |-> made]
         ELSE MkParents(f, path, i + 1, nxt, made \cup {nxt})

\* Where the entry lands: the location the final component names in the
\* directory the parents lead to.
WriteLocation(f, full) ==
    LET w == MkParents(f, full, 1, <<>>, {})
    IN IF Filename(full) = ".." THEN ParentPath(w.cur) ELSE Append(w.cur, Filename(full))

\* The object of kind `kind` put at loc, replacing what was there.
Place(f, loc, kind) ==
    [dirs |-> IF kind = "dir" THEN f.dirs \cup {loc} ELSE f.dirs \ {loc},
     files |-> IF kind = "file" THEN f.files \cup {loc} ELSE f.files \ {loc},
     links |-> IF kind = "symlink" THEN f.links \cup {loc} ELSE f.links \ {loc}]

HasChildren(f, loc) ==
    \E d \in f.dirs \cup f.files \cup f.links : IsPrefix(loc, d) /\ d # loc

\* The result of archive_write_header when no I/O error occurs:
\* [ok, fs, touched]. A directory entry over an existing directory, or over a
\* symlink to one, keeps it and sets its permissions and times; anything else
\* replaces what is in the way, except a directory that is not empty.
WriteHeader(f, full, kind) ==
    LET w == MkParents(f, full, 1, <<>>, {})
        g == [f EXCEPT !.dirs = @ \cup w.made]
        loc == WriteLocation(f, full)
        refuse == [ok |-> FALSE, fs |-> f, touched |-> {}]
    IN IF ~w.ok THEN refuse
       ELSE IF Filename(full) = ".."
       THEN IF kind = "dir"
            THEN [ok |-> TRUE, fs |-> g, touched |-> w.made \cup {loc}]
            ELSE refuse
       ELSE IF loc \in g.links /\ kind = "dir"
       THEN [ok |-> TRUE, fs |-> g, touched |-> w.made \cup {LinkDest}]
       ELSE IF loc \in g.dirs /\ kind = "dir"
       THEN [ok |-> TRUE, fs |-> g, touched |-> w.made \cup {loc}]
       ELSE IF loc \in g.dirs /\ HasChildren(g, loc)
       THEN refuse
       ELSE [ok |-> TRUE, fs |-> Place(g, loc, kind), touched |-> w.made \cup {loc}]

\* Everything below the target directory.
Below(f, dir) == [dirs |-> {d \in f.dirs : ~IsPrefix(dir, d)},
                  files |-> {d \in f.files : ~IsPrefix(dir, d)},
                  links |-> {d \in f.links : ~IsPrefix(dir, d)}]

-----------------------------------------------------------------------------
(* ArchiveHelper::ExtractTarBz2, run by nativeExtractTarBz2 on one thread,  *)
(* and ArchiveHelper::Cancel, called from any other thread.                 *)

NoEntry == [path |-> <<>>, kind |-> "none"]
OldFile == Append(TargetPath, "old")    \* content of a target that exists before the call

ExRunning == exPc \notin {"idle", "done", "crashed"}

\* The source file is a sequence of pieces, each what one fread of the 64 KiB
\* buffer hands out; Chunks(a, b) are the pieces after the a-th up to the b-th.
Chunks(a, b) == [i \in 1..(b - a) |-> a + i]

\* A SHA-256 digest is told by the bytes it was computed over, in order.
Sha256Of(fed) == [set |-> TRUE, of |-> fed]
NoSha == [set |-> FALSE, of |-> <<>>]

\* ArchiveHelper::ComputeFileSha256, lines 359-398, on a file of `total`
\* pieces that reads without error: every piece is fed in order.
RECURSIVE HashLoop(_, _, _)
HashLoop(total, pos, fed) ==
    IF pos = total THEN fed ELSE HashLoop(total, pos + 1, Append(fed, pos + 1))
ComputeFileSha256(total) == Sha256Of(HashLoop(total, 0, <<>>))

\* Lines 309-314: the integer percentage, clamped.
Percent(bytes, total) ==
    LET p == (bytes * 100) \div total
    IN IF p > 100 THEN 100 ELSE IF p < 0 THEN 0 ELSE p

\* An on_progress call, and none yet.
ProgressCall(bytes, total, percent) == [bytes |-> bytes, total |-> total, percent |-> percent]
NoCall == ProgressCall(-1, -1, -1)

\* The extraction state before any call; pre: target_path exists already.
ArchiveStart(pre) ==
    /\ cancel_requested_ = FALSE
    /\ exPc = "idle"
    /\ exForce = FALSE
    /\ exOk = FALSE
    /\ exError = ""
    /\ exEntry = NoEntry
    /\ exEntries = 0
    /\ exBlocks = 0
    /\ exResult = "none"
    /\ fs = [dirs |-> IF pre THEN BaseDirs \cup {TargetPath} ELSE BaseDirs,
             files |-> IF pre THEN {OldFile} ELSE {},
             links |-> {}]
    /\ written = {}
    /\ fileOpen = FALSE
    /\ readerAlloc = FALSE
    /\ diskAlloc = FALSE
    /\ jniEscaped = FALSE
    /\ cancelHist = "never"
    /\ total_bytes = 0
    /\ bytes_read = 0
    /\ sha_fed = <<>>
    /\ out_sha256 = NoSha
    /\ last_percent = -1
    /\ exCalls = 0
    /\ exCall = NoCall

\* return false / return true, with *out_error
ExReturn(ok, err) ==
    /\ exPc' = "done"
    /\ exOk' = ok
    /\ exError' = err

\* Lines 87-89 (nativeCancelExtract, archive-jni.cpp 139-142)
Cancel ==
    /\ cancel_requested_' = TRUE
    /\ cancelHist' = IF ExRunning THEN "during" ELSE cancelHist
    /\ UNCHANGED <<exPc, exForce, exOk, exError, exEntry, exEntries, exBlocks, exResult,
                   fs, written, fileOpen, readerAlloc, diskAlloc, jniEscaped>>
    /\ UNCHANGED <<readVars, progVars>>
    /\ UNCHANGED <<wrapVars, libVars>>

\* Entry of the call and line 98: cancel_requested_.store(false)
ExtractBegin ==
    /\ exPc = "idle"
    /\ \E force \in BOOLEAN : exForce' = force
    /\ cancelHist' = IF cancel_requested_ THEN "before" ELSE "never"
    /\ cancel_requested_' = FALSE
    /\ exPc' = "prepare"
    /\ exOk' = FALSE
    /\ exError' = ""
    /\ exEntry' = NoEntry
    /\ exEntries' = 0
    /\ exBlocks' = 0
    /\ exResult' = "none"
    /\ written' = {}
    /\ fileOpen' = FALSE
    /\ readerAlloc' = FALSE
    /\ diskAlloc' = FALSE
    /\ total_bytes' = 0
    /\ bytes_read' = 0
    /\ sha_fed' = <<>>
    /\ out_sha256' = NoSha
    /\ last_percent' = -1
    /\ exCalls' = 0
    /\ exCall' = NoCall
    /\ UNCHANGED <<fs, jniEscaped>>
    /\ UNCHANGED <<wrapVars, libVars>>

PrepareFailures == {"none", "no_source", "fs_throw", "remove_fail", "mkdir_fail",
                    "size_fail", "reader_null", "fopen_fail", "open_fail", "disk_null"}

\* Variant: a call that never refuses an existing target.
RefusesTargetNever == FALSE

\* Lines 107 and 115-118: the target exists and force is false.
RefusesTarget == Exists(fs, TargetPath) /\ ~exForce

\* ArchiveReadCallback, lines 27-49, called n times by the reader: each call
\* freads the next piece, feeds it to the hash and counts it.
ReadPieces(n) ==
    /\ bytes_read' = bytes_read + n
    /\ sha_fed' = sha_fed \o Chunks(bytes_read, bytes_read + n)

\* DrainRemainingAndClose, lines 56-69: pieces are read and fed to the hash
\* until fread returns 0, which it does at the end of the file and also on a
\* read error, wherever that strikes.
DrainRemainingAndClose(size) ==
    \E stop \in {bytes_read, size} : ReadPieces(stop - bytes_read)

\* Lines 100-199: validation, target directory, size, reader and disk
\* writer.  env is what the environment makes fail, sizes the sizes the
\* source file may have.  archive_read_open reads the first piece.
ExtractPrepareOf(sizes) ==
    /\ exPc = "prepare"
    /\ \E env \in PrepareFailures, size \in sizes :
         LET removed == Below(fs, TargetPath)
             created == [removed EXCEPT !.dirs = @ \cup {TargetPath}]
             exists == Exists(fs, TargetPath)
         IN
         IF env = "fs_throw"
         THEN \* std::filesystem::exists / canonical throw filesystem_error: no
              \* handler in ExtractTarBz2 nor in nativeExtractTarBz2
              /\ exPc' = "crashed"
              /\ jniEscaped' = TRUE
              /\ UNCHANGED <<exOk, exError, fs, fileOpen, readerAlloc, diskAlloc, exResult,
                             readVars>>
         ELSE
         /\ UNCHANGED jniEscaped
         /\ IF env = "no_source"
            THEN ExReturn(FALSE, "Source file does not exist")
                 /\ UNCHANGED <<fs, fileOpen, readerAlloc, diskAlloc, exResult, readVars>>
            ELSE IF RefusesTarget
            THEN ExReturn(FALSE, "Target path already exists")
                 /\ UNCHANGED <<fs, fileOpen, readerAlloc, diskAlloc, exResult, readVars>>
            ELSE IF exists /\ env = "remove_fail"
            THEN ExReturn(FALSE, "Failed to remove target directory")
                 /\ UNCHANGED <<fs, fileOpen, readerAlloc, diskAlloc, exResult, readVars>>
            ELSE IF env = "mkdir_fail"
            THEN ExReturn(FALSE, "Failed to create target directory")
                 /\ fs' = removed
                 /\ UNCHANGED <<fileOpen, readerAlloc, diskAlloc, exResult, readVars>>
            ELSE IF env = "size_fail"
            THEN ExReturn(FALSE, "Failed to get file size")
                 /\ fs' = created
                 /\ UNCHANGED <<fileOpen, readerAlloc, diskAlloc, exResult, readVars>>
            ELSE
            /\ total_bytes' = size
            /\ UNCHANGED out_sha256
            /\ IF env = "reader_null"
               THEN ExReturn(FALSE, "Failed to create archive reader")
                    /\ fs' = created
                    /\ UNCHANGED <<fileOpen, readerAlloc, diskAlloc, exResult, bytes_read,
                                   sha_fed>>
               ELSE IF env = "fopen_fail"
               THEN \* 159-163: archive_read_free(archive)
                    ExReturn(FALSE, "Failed to open archive file")
                    /\ fs' = created
                    /\ UNCHANGED <<fileOpen, readerAlloc, diskAlloc, exResult, bytes_read,
                                   sha_fed>>
               ELSE IF env = "open_fail"
               THEN \* 169-177: close_reader(); archive_read_free(archive)
                    ExReturn(FALSE, "Failed to open archive")
                    /\ fs' = created
                    /\ DrainRemainingAndClose(size)
                    /\ UNCHANGED <<fileOpen, readerAlloc, diskAlloc, exResult>>
               ELSE IF env = "disk_null"
               THEN \* 181-185: archive_read_free(archive); the file stays open
                    ExReturn(FALSE, "Failed to create disk writer")
                    /\ fs' = created
                    /\ fileOpen' = TRUE
                    /\ ReadPieces(1)
                    /\ UNCHANGED <<readerAlloc, diskAlloc, exResult>>
               ELSE /\ exPc' = "readHeader"
                    /\ fs' = created
                    /\ fileOpen' = TRUE
                    /\ readerAlloc' = TRUE
                    /\ diskAlloc' = TRUE
                    /\ exResult' = "ok"
                    /\ ReadPieces(1)
                    /\ UNCHANGED <<exOk, exError>>
    /\ UNCHANGED <<cancel_requested_, exForce, exEntry, exEntries, exBlocks, written,
                   cancelHist, progVars>>
    /\ UNCHANGED <<wrapVars, libVars>>

\* A source archive that one fread takes in whole
SmallSizes == {1}

\* nativeExtractTarBz2 on a small archive
ExtractPrepare == ExtractPrepareOf(SmallSizes)

\* What the loop leaves alone unless an action says otherwise.
ExFrame == UNCHANGED <<cancel_requested_, exForce, jniEscaped, cancelHist, total_bytes,
                       wrapVars, libVars>>

\* The reader, the disk writer and the file stay as they are.
ExKeep == UNCHANGED <<fileOpen, readerAlloc, diskAlloc, bytes_read, sha_fed>>

\* archive_read_free(archive); archive_write_free(disk); close_reader();
ExFreeAll ==
    /\ readerAlloc' = FALSE
    /\ diskAlloc' = FALSE
    /\ fileOpen' = FALSE
    /\ DrainRemainingAndClose(total_bytes)

\* Line 201: archive_read_next_header, having pulled n more pieces of the
\* source through the read callback, returns ARCHIVE_OK with the next entry
\* (one of paths, of one of kinds), ARCHIVE_EOF, or an error (a corrupt or
\* truncated archive, a failed read).
ReadHeaderOf(paths, kinds) ==
    /\ exPc = "readHeader"
    /\ \E n \in 0..(total_bytes - bytes_read) : ReadPieces(n)
    /\ \/ /\ exEntries < MaxEntries
          /\ \E path \in paths, kind \in kinds :
                exEntry' = [path |-> path, kind |-> kind]
          /\ exEntries' = exEntries + 1
          /\ exResult' = "ok"
          /\ exPc' = "pollHeader"
       \/ /\ \E r \in {"eof", "error"} : exResult' = r
          /\ exPc' = "finish"
          /\ UNCHANGED <<exEntry, exEntries>>
    /\ exBlocks' = 0
    /\ UNCHANGED <<exOk, exError, fs, written, fileOpen, readerAlloc, diskAlloc>>
    /\ UNCHANGED <<out_sha256, progVars>>
    /\ ExFrame

\* The next header of an archive that may hold any of the entries
ReadHeader == ReadHeaderOf(EntryPaths, EntryKinds)

\* Variant: PollHeader without its check of the flag.
PollHeaderNoCheck ==
    /\ exPc = "pollHeader"
    /\ exPc' = "checkPath"
    /\ UNCHANGED <<exOk, exError>>
    /\ ExKeep
    /\ UNCHANGED <<exEntry, exEntries, exBlocks, exResult, fs, written>>
    /\ UNCHANGED <<out_sha256, progVars>>
    /\ ExFrame

\* Lines 202-208: the cancellation check that follows an OK header read.
PollHeader ==
    /\ exPc = "pollHeader"
    /\ IF cancel_requested_
       THEN ExReturn(FALSE, "Extraction cancelled") /\ ExFreeAll
       ELSE exPc' = "checkPath" /\ UNCHANGED <<exOk, exError>> /\ ExKeep
    /\ UNCHANGED <<exEntry, exEntries, exBlocks, exResult, fs, written>>
    /\ UNCHANGED <<out_sha256, progVars>>
    /\ ExFrame

\* Lines 210-258: the path-traversal check.
CheckPath ==
    /\ exPc = "checkPath"
    /\ IF PathAllowed(fs, FullPath(exEntry.path))
       THEN exPc' = "writeHeader" /\ UNCHANGED <<exOk, exError>> /\ ExKeep
       ELSE ExReturn(FALSE, "Blocked path traversal") /\ ExFreeAll
    /\ UNCHANGED <<exEntry, exEntries, exBlocks, exResult, fs, written>>
    /\ UNCHANGED <<out_sha256, progVars>>
    /\ ExFrame

\* Lines 260-274: archive_entry_set_pathname, archive_write_header.
WriteEntryHeader ==
    /\ exPc = "writeHeader"
    /\ LET w == WriteHeader(fs, FullPath(exEntry.path), exEntry.kind) IN
       \/ /\ w.ok
          /\ fs' = w.fs
          /\ written' = written \cup w.touched
          /\ exPc' = "readBlock"
          /\ UNCHANGED <<exOk, exError, exResult>>
          /\ ExKeep
       \/ \* the disk writer fails (the model's own refusals, or any I/O error)
          /\ exResult' = "error"
          /\ ExReturn(FALSE, "Failed to write entry")
          /\ ExFreeAll
          /\ UNCHANGED <<fs, written>>
    /\ UNCHANGED <<exEntry, exEntries, exBlocks>>
    /\ UNCHANGED <<out_sha256, progVars>>
    /\ ExFrame

\* Line 281: archive_read_data_block, having pulled n more pieces of the
\* source, returns ARCHIVE_OK with a block, ARCHIVE_EOF at the end of the
\* entry, or an error.
ReadBlock ==
    /\ exPc = "readBlock"
    /\ \/ /\ exBlocks < MaxBlocks
          /\ exBlocks' = exBlocks + 1
          /\ exResult' = "ok"
          /\ exPc' = "pollBlock"
          /\ \E n \in 0..(total_bytes - bytes_read) : ReadPieces(n)
          /\ UNCHANGED <<exOk, exError, fileOpen, readerAlloc, diskAlloc>>
       \/ \* lines 326-338: ARCHIVE_EOF ends the entry, the outer loop goes on
          /\ exResult' = "eof"
          /\ exPc' = "readHeader"
          /\ \E n \in 0..(total_bytes - bytes_read) : ReadPieces(n)
          /\ UNCHANGED <<exBlocks, exOk, exError, fileOpen, readerAlloc, diskAlloc>>
       \/ \* lines 328-337
          /\ exResult' = "error"
          /\ ExReturn(FALSE, "Failed to read data")
          /\ ExFreeAll
          /\ UNCHANGED exBlocks
    /\ UNCHANGED <<exEntry, exEntries, fs, written>>
    /\ UNCHANGED <<out_sha256, progVars>>
    /\ ExFrame

\* Variant: PollBlock without its check of the flag.
PollBlockNoCheck ==
    /\ exPc = "pollBlock"
    /\ exPc' = "writeBlock"
    /\ UNCHANGED <<exOk, exError>>
    /\ ExKeep
    /\ UNCHANGED <<exEntry, exEntries, exBlocks, exResult, fs, written>>
    /\ UNCHANGED <<out_sha256, progVars>>
    /\ ExFrame

\* Lines 282-288: the cancellation check that follows an OK data block read.
PollBlock ==
    /\ exPc = "pollBlock"
    /\ IF cancel_requested_
       THEN ExReturn(FALSE, "Extraction cancelled") /\ ExFreeAll
       ELSE exPc' = "writeBlock" /\ UNCHANGED <<exOk, exError>> /\ ExKeep
    /\ UNCHANGED <<exEntry, exEntries, exBlocks, exResult, fs, written>>
    /\ UNCHANGED <<out_sha256, progVars>>
    /\ ExFrame

\* Variant: the progress report without the test percent != last_percent.
ReportProgressAlways ==
    LET compressed_bytes == bytes_read
        percent == Percent(compressed_bytes, total_bytes)
    IN /\ last_percent' = percent
       /\ exCalls' = exCalls + 1
       /\ exCall' = ProgressCall(compressed_bytes, total_bytes, percent)

\* Lines 305-319, total_bytes > 0 (a file that holds a data block is not
\* empty): archive_filter_bytes(archive, -1) is what the reader took from
\* the source; on_progress is called when the percentage has changed.
ReportProgress ==
    LET compressed_bytes == bytes_read
        percent == Percent(compressed_bytes, total_bytes)
    IN IF percent # last_percent
       THEN /\ last_percent' = percent
            /\ exCalls' = exCalls + 1
            /\ exCall' = ProgressCall(compressed_bytes, total_bytes, percent)
       ELSE UNCHANGED progVars

\* Lines 290-325: archive_write_data_block and the progress report.
WriteBlock ==
    /\ exPc = "writeBlock"
    /\ \/ /\ exPc' = "readBlock"
          /\ ReportProgress
          /\ UNCHANGED <<exOk, exError, exResult>>
          /\ ExKeep
       \/ /\ exResult' = "error"
          /\ ExReturn(FALSE, "Failed to write data")
          /\ ExFreeAll
          /\ UNCHANGED progVars
    /\ UNCHANGED <<exEntry, exEntries, exBlocks, fs, written>>
    /\ UNCHANGED out_sha256
    /\ ExFrame

\* Lines 340-356: the loop has ended (ARCHIVE_EOF or an error of
\* archive_read_next_header); free, drain and close, write the digest, make
\* the final progress call, return true.
ExtractFinish ==
    /\ exPc = "finish"
    /\ ExReturn(TRUE, "")
    /\ ExFreeAll
    /\ out_sha256' = Sha256Of(sha_fed')
    /\ IF total_bytes > 0
       THEN /\ exCalls' = exCalls + 1
            /\ exCall' = ProgressCall(total_bytes, total_bytes, 100)
       ELSE UNCHANGED <<exCalls, exCall>>
    /\ UNCHANGED last_percent
    /\ UNCHANGED <<exEntry, exEntries, exBlocks, exResult, fs, written>>
    /\ ExFrame

-----------------------------------------------------------------------------
(* The STT and TTS wrappers: engine objects and call histories *)

\* The modelDir arguments of initialize: the empty string and two directories.
ModelDirs == {"", "m1", "m2"}

\* An engine object is [id, dir]: id tells objects apart, dir is the directory
\* its configuration was built from.  NoEngine is an empty std::optional,
\* NullHandle the object Create() returns when loading failed (Get() == nullptr).
NoEngine == [id |-> 0, dir |-> ""]
NullHandle == [id |-> 0, dir |-> "nullptr"]

\* The identity of a newly constructed object: the first one not in use.
FreeId(used) == CHOOSE n \in 1..(Cardinality(used) + 1) :
                    /\ n \notin used
                    /\ \A k \in 1..(n - 1) : k \in used

EngineIds(engines) == {e.id : e \in engines}

\* What makes an initialize call fail before Create(): GetStringUTFChars
\* returning null, DetectSttModel/DetectTtsModel failing, an unhandled kind.
InitEnvs == {"ok", "jniString", "detectFail", "unknownKind"}

\* What Create() does: an engine, an object with a null handle, an exception.
CreateOutcomes == {"engine", "nullHandle", "throw"}

\* The history keeps the last call, and the call before it when both are
\* initialize calls.
Push(h, e) == IF e.op = "init" /\ h # <<>> /\ h[Len(h)].op = "init"
              THEN <<h[Len(h)], e>>
              ELSE <<e>>
InitCall(dir, ok) == [op |-> "init", dir |-> dir, ok |-> ok]
ReleaseCall == [op |-> "release", dir |-> "", ok |-> TRUE]

\* The callback map: a function from the stream ids it holds.
NoCallbacks == <<>>
Emplace(map, k, v) == IF k \in DOMAIN map THEN map
                      ELSE [x \in DOMAIN map \cup {k} |-> IF x = k THEN v ELSE map[x]]
Erase(map, k) == [x \in DOMAIN map \ {k} |-> map[x]]

\* The threads of the host's pool that run nativeTtsGenerateStream calls
StreamThreads == 1..2

\* Callback objects.  Cb(t) is the object made by the call running on thread
\* t; once that call has returned no thread refers to the object any more,
\* and whatever the map still holds of such objects goes by the one name
\* StaleCb.  NoCb is a null pointer.
Cb(t) == [by |-> t]
NoCb == [by |-> 0]
StaleCb == [by |-> -1]

\* std::shared_ptr: the callback objects some shared_ptr still points to.
CbRefs(map, ptrs) == ({map[k] : k \in DOMAIN map} \cup {ptrs[t] : t \in StreamThreads}) \ {NoCb}

WrapStart ==
    /\ g_stt_wrapper = "nullptr"
    /\ stt_initialized = FALSE
    /\ stt_modelDir = ""
    /\ stt_recognizer = NoEngine
    /\ sttLive = {}
    /\ sttCalls = <<>>
    /\ g_tts_wrapper = "nullptr"
    /\ tts_initialized = FALSE
    /\ tts_modelDir = ""
    /\ tts_tts = NoEngine
    /\ ttsLive = {}
    /\ g_tts_skip_next_release = FALSE
    /\ brPc = "idle"
    /\ brDir = ""
    /\ brTemp = NoEngine
    /\ g_tts_stream_cancelled = FALSE
    /\ g_tts_active_stream_id = 0
    /\ activeStreamCallbacks = NoCallbacks
    /\ cbAlive = {}
    /\ gsPc = [t \in StreamThreads |-> "idle"]
    /\ gsStreamId = [t \in StreamThreads |-> 0]
    /\ gsCbPtr = [t \in StreamThreads |-> NoCb]
    /\ gsArg = [t \in StreamThreads |-> NoCb]
    /\ gsFinalSent = [t \in StreamThreads |-> FALSE]
    /\ gsCancelled = [t \in StreamThreads |-> FALSE]
    /\ gsDelivered = [t \in StreamThreads |-> <<>>]

\* No thread is inside a TtsWrapper method and the mutex is free.
MxStart ==
    /\ streamMutex = 0
    /\ mxPc = [t \in StreamThreads |-> "idle"]
    /\ mxOp = [t \in StreamThreads |-> "none"]
    /\ mxId = [t \in StreamThreads |-> 0]

\* The block size, the offset of the length field in the last block and the
\* size of that field, in bytes (sha256.cpp 128, 157, 166).
BlockBytes == 64
PadLimit == 56
LengthFieldBytes == 8

\* process_block, sha256.cpp 67-110: the new chaining value is a function of
\* the old one and the 64 bytes of the block.  A chaining value is told by
\* the blocks that went into it, in order.
ProcessBlock(state, block) == Append(state, block)

\* sha256_init, sha256.cpp 113-117; buffer holds the buffer_size bytes kept.
Sha256Init == [total_bits |-> 0, state |-> <<>>, buffer |-> <<>>]

\* sha256.cpp 140-143: while (offset + 64 <= len) process_block(data + offset)
RECURSIVE WholeBlocks(_, _, _)
WholeBlocks(state, data, offset) ==
    IF offset + BlockBytes <= Len(data)
    THEN WholeBlocks(ProcessBlock(state, SubSeq(data, offset + 1, offset + BlockBytes)),
                     data, offset + BlockBytes)
    ELSE [state |-> state, offset |-> offset]

\* Variant: an update that forgets the bytes kept in the buffer when the new
\* data does not start on a block boundary.
Sha256UpdateNoCarry(ctx, data) ==
    IF Len(data) = 0 THEN ctx
    ELSE LET after == WholeBlocks(ctx.state, data, 0)
         IN [total_bits |-> ctx.total_bits + Len(data) * 8,
             state |-> after.state,
             buffer |-> SubSeq(data, after.offset + 1, Len(data))]

\* sha256_update, sha256.cpp 119-150
Sha256Update(ctx, data) ==
    IF Len(data) = 0 THEN ctx
    ELSE LET len == Len(data)
             buffer_size == Len(ctx.buffer)
             room == BlockBytes - buffer_size
             to_copy == IF buffer_size > 0
                        THEN (IF room > len THEN len ELSE room)
                        ELSE 0
             filled == ctx.buffer \o SubSeq(data, 1, to_copy)
             full == buffer_size > 0 /\ Len(filled) = BlockBytes
             state1 == IF full THEN ProcessBlock(ctx.state, filled) ELSE ctx.state
             buffer1 == IF full THEN <<>> ELSE filled
             after == WholeBlocks(state1, data, to_copy)
         IN [total_bits |-> ctx.total_bits + len * 8,
             state |-> after.state,
             buffer |-> IF after.offset < len
                        THEN SubSeq(data, after.offset + 1, len)
                        ELSE buffer1]

\* sha256.cpp 154-155: padding[0] = 0x80, the rest zero
Padding(n) == [i \in 1..n |-> IF i = 1 THEN 128 ELSE 0]

\* sha256.cpp 159-165: the bit count, most significant byte first
RECURSIVE BigEndian(_, _)
BigEndian(value, bytes) ==
    IF bytes = 0 THEN <<>>
    ELSE Append(BigEndian(value \div 256, bytes - 1), value % 256)

\* sha256_final, sha256.cpp 152-174: pad, append the length, write out the
\* chaining value.
Sha256Final(ctx) ==
    LET message_bits == ctx.total_bits
        buffer_size == Len(ctx.buffer)
        pad_len == IF buffer_size < PadLimit
                   THEN PadLimit - buffer_size
                   ELSE (BlockBytes + PadLimit) - buffer_size
        padded == Sha256Update(ctx, Padding(pad_len))
        closed == Sha256Update(padded, BigEndian(message_bits, LengthFieldBytes))
    IN [digest |-> closed.state, left |-> Len(closed.buffer)]

NoDigest == [digest |-> <<>>, left |-> -1]

ShaStart ==
    /\ shaPc = "idle"
    /\ shaMsg = <<>>
    /\ shaPos = 0
    /\ sha_ctx = Sha256Init
    /\ shaOut = NoDigest

-----------------------------------------------------------------------------
(* Model detection: the helpers of model_detect/sherpa-onnx-model-detect-    *)
(* helper.cpp.  A file name, a directory name and a search token are          *)
(* sequences of characters, so that find, EndsWith and ToLower are computed.  *)

Upper == <<"A", "B", "C", "D", "E", "F", "G", "H", "I", "J", "K", "L", "M", "N", "O", "P", "Q", "R", "S", "T", "U", "V", "W", "X", "Y", "Z">>
Lower == <<"a", "b", "c", "d", "e", "f", "g", "h", "i", "j", "k", "l", "m", "n", "o", "p", "q", "r", "s", "t", "u", "v", "w", "x", "y", "z">>

\* std::tolower on one character
LowerOf(c) ==
    IF \E i \in 1..Len(Upper) : Upper[i] = c
    THEN Lower[CHOOSE i \in 1..Len(Upper) : Upper[i] = c]
    ELSE c

RECURSIVE ToLower(_)
ToLower(value) ==
    IF value = <<>> THEN <<>>
    ELSE <<LowerOf(Head(value))>> \o ToLower(Tail(value))

EndsWith(value, suffix) ==
    /\ Len(suffix) <= Len(value)
    /\ SubSeq(value, Len(value) - Len(suffix) + 1, Len(value)) = suffix

\* value.find(token) != npos
ContainsToken(value, token) ==
    \E i \in 0..(Len(value) - Len(token)) : SubSeq(value, i + 1, i + Len(token)) = token

\* The character strings of the detectors: the file names they look for, the
\* tokens they search for in names, and the model directory names tried here.
Str == [
    encoder_onnx |-> <<"e", "n", "c", "o", "d", "e", "r", ".", "o", "n", "n", "x">>,
    decoder_onnx |-> <<"d", "e", "c", "o", "d", "e", "r", ".", "o", "n", "n", "x">>,
    joiner_onnx |-> <<"j", "o", "i", "n", "e", "r", ".", "o", "n", "n", "x">>,
    model_onnx |-> <<"m", "o", "d", "e", "l", ".", "o", "n", "n", "x">>,
    model_int8_onnx |-> <<"m", "o", "d", "e", "l", ".", "i", "n", "t", "8", ".", "o", "n", "n", "x">>,
    encoder_int8_onnx |-> <<"e", "n", "c", "o", "d", "e", "r", ".", "i", "n", "t", "8", ".", "o", "n", "n", "x">>,
    decoder_int8_onnx |-> <<"d", "e", "c", "o", "d", "e", "r", ".", "i", "n", "t", "8", ".", "o", "n", "n", "x">>,
    encoder_adaptor_onnx |-> <<"e", "n", "c", "o", "d", "e", "r", "_", "a", "d", "a", "p", "t", "o", "r", ".", "o", "n", "n", "x">>,
    encoder_adaptor_int8_onnx |-> <<"e", "n", "c", "o", "d", "e", "r", "_", "a", "d", "a", "p", "t", "o", "r", ".", "i", "n", "t", "8", ".", "o", "n", "n", "x">>,
    llm_onnx |-> <<"l", "l", "m", ".", "o", "n", "n", "x">>,
    llm_int8_onnx |-> <<"l", "l", "m", ".", "i", "n", "t", "8", ".", "o", "n", "n", "x">>,
    embedding_onnx |-> <<"e", "m", "b", "e", "d", "d", "i", "n", "g", ".", "o", "n", "n", "x">>,
    embedding_int8_onnx |-> <<"e", "m", "b", "e", "d", "d", "i", "n", "g", ".", "i", "n", "t", "8", ".", "o", "n", "n", "x">>,
    tokens_txt |-> <<"t", "o", "k", "e", "n", "s", ".", "t", "x", "t">>,
    labels_txt |-> <<"l", "a", "b", "e", "l", "s", ".", "t", "x", "t">>,
    vocab_json |-> <<"v", "o", "c", "a", "b", ".", "j", "s", "o", "n">>,
    voices_bin |-> <<"v", "o", "i", "c", "e", "s", ".", "b", "i", "n">>,
    lexicon_txt |-> <<"l", "e", "x", "i", "c", "o", "n", ".", "t", "x", "t">>,
    token_scores_json |-> <<"t", "o", "k", "e", "n", "_", "s", "c", "o", "r", "e", "s", ".", "j", "s", "o", "n">>,
    espeak_ng_data |-> <<"e", "s", "p", "e", "a", "k", "-", "n", "g", "-", "d", "a", "t", "a">>,
    dot_onnx |-> <<".", "o", "n", "n", "x">>,
    dot_txt |-> <<".", "t", "x", "t">>,
    int8 |-> <<"i", "n", "t", "8">>,
    encoder |-> <<"e", "n", "c", "o", "d", "e", "r">>,
    decoder |-> <<"d", "e", "c", "o", "d", "e", "r">>,
    joiner |-> <<"j", "o", "i", "n", "e", "r">>,
    model |-> <<"m", "o", "d", "e", "l">>,
    llm |-> <<"l", "l", "m">>,
    embedding |-> <<"e", "m", "b", "e", "d", "d", "i", "n", "g">>,
    vocoder |-> <<"v", "o", "c", "o", "d", "e", "r">>,
    vocos |-> <<"v", "o", "c", "o", "s">>,
    acoustic |-> <<"a", "c", "o", "u", "s", "t", "i", "c">>,
    encode |-> <<"e", "n", "c", "o", "d", "e">>,
    preprocess |-> <<"p", "r", "e", "p", "r", "o", "c", "e", "s", "s">>,
    preprocessor |-> <<"p", "r", "e", "p", "r", "o", "c", "e", "s", "s", "o", "r">>,
    uncached |-> <<"u", "n", "c", "a", "c", "h", "e", "d">>,
    cached |-> <<"c", "a", "c", "h", "e", "d">>,
    tokens |-> <<"t", "o", "k", "e", "n", "s">>,
    nemo |-> <<"n", "e", "m", "o">>,
    parakeet |-> <<"p", "a", "r", "a", "k", "e", "e", "t">>,
    wenet |-> <<"w", "e", "n", "e", "t">>,
    sense |-> <<"s", "e", "n", "s", "e">>,
    sensevoice |-> <<"s", "e", "n", "s", "e", "v", "o", "i", "c", "e">>,
    funasr |-> <<"f", "u", "n", "a", "s", "r">>,
    moonshine |-> <<"m", "o", "o", "n", "s", "h", "i", "n", "e">>,
    dolphin |-> <<"d", "o", "l", "p", "h", "i", "n">>,
    canary |-> <<"c", "a", "n", "a", "r", "y">>,
    omnilingual |-> <<"o", "m", "n", "i", "l", "i", "n", "g", "u", "a", "l">>,
    medasr |-> <<"m", "e", "d", "a", "s", "r">>,
    telespeech |-> <<"t", "e", "l", "e", "s", "p", "e", "e", "c", "h">>,
    kitten |-> <<"k", "i", "t", "t", "e", "n">>,
    kokoro |-> <<"k", "o", "k", "o", "r", "o">>,
    vits |-> <<"v", "i", "t", "s">>,
    encoder_adaptor |-> <<"e", "n", "c", "o", "d", "e", "r", "_", "a", "d", "a", "p", "t", "o", "r">>,
    encoder_dash_adaptor |-> <<"e", "n", "c", "o", "d", "e", "r", "-", "a", "d", "a", "p", "t", "o", "r">>,
    uncached_decode |-> <<"u", "n", "c", "a", "c", "h", "e", "d", "_", "d", "e", "c", "o", "d", "e">>,
    cached_decode |-> <<"c", "a", "c", "h", "e", "d", "_", "d", "e", "c", "o", "d", "e">>,
    acoustic_model |-> <<"a", "c", "o", "u", "s", "t", "i", "c", "_", "m", "o", "d", "e", "l">>,
    acoustic_dash_model |-> <<"a", "c", "o", "u", "s", "t", "i", "c", "-", "m", "o", "d", "e", "l">>,
    lm_flow |-> <<"l", "m", "_", "f", "l", "o", "w">>,
    lm_dash_flow |-> <<"l", "m", "-", "f", "l", "o", "w">>,
    lm_main |-> <<"l", "m", "_", "m", "a", "i", "n">>,
    lm_dash_main |-> <<"l", "m", "-", "m", "a", "i", "n">>,
    text_conditioner |-> <<"t", "e", "x", "t", "_", "c", "o", "n", "d", "i", "t", "i", "o", "n", "e", "r">>,
    text_dash_conditioner |-> <<"t", "e", "x", "t", "-", "c", "o", "n", "d", "i", "t", "i", "o", "n", "e", "r">>,
    funasr_dash_nano |-> <<"f", "u", "n", "a", "s", "r", "-", "n", "a", "n", "o">>,
    fire_red |-> <<"f", "i", "r", "e", "_", "r", "e", "d">>,
    fire_dash_red |-> <<"f", "i", "r", "e", "-", "r", "e", "d">>,
    dir_plain |-> <<"m", "1">>,
    dir_funasr |-> <<"f", "u", "n", "a", "s", "r", "-", "n", "a", "n", "o">>,
    dir_Kokoro |-> <<"K", "o", "k", "o", "r", "o", "-", "e", "n">>,
    dir_kitten |-> <<"k", "i", "t", "t", "e", "n", "-", "m", "i", "n", "i">>,
    dir_nemo |-> <<"n", "e", "m", "o", "-", "c", "t", "c">>,
    preprocess_onnx |-> <<"p", "r", "e", "p", "r", "o", "c", "e", "s", "s", ".", "o", "n", "n", "x">>,
    encode_int8_onnx |-> <<"e", "n", "c", "o", "d", "e", ".", "i", "n", "t", "8", ".", "o", "n", "n", "x">>,
    uncached_decode_int8_onnx |-> <<"u", "n", "c", "a", "c", "h", "e", "d", "_", "d", "e", "c", "o", "d", "e", ".", "i", "n", "t", "8", ".", "o", "n", "n", "x">>,
    cached_decode_int8_onnx |-> <<"c", "a", "c", "h", "e", "d", "_", "d", "e", "c", "o", "d", "e", ".", "i", "n", "t", "8", ".", "o", "n", "n", "x">>
]

\* A directory is [name, files, dirs]: its name, the listing ListFilesRecursive
\* returns (in the order the file system gives it) and the names of its
\* subdirectories.  A FileEntry is [name, nameLower, size, lines]; lines tells how many
\* lines the file has and how many of them end with a number.  The directories
\* tried here are flat, so the path of a file is its name.
NoPath == <<>>

IsOnnxFile(entry) == EndsWith(entry.nameLower, Str.dot_onnx)

FileExists(dir, name) ==
    \/ \E i \in 1..Len(dir.files) : dir.files[i].name = name
    \/ name \in dir.dirs

RECURSIVE ChooseFrom(_, _, _, _, _, _)
\* The loop of ChooseLargest from the i-th entry on; best is [chosen, bestSize].
ChooseFrom(files, excludeTokens, onlyInt8, onlyNonInt8, i, best) ==
    IF i > Len(files) THEN best.chosen
    ELSE LET entry == files[i]
             nameLower == entry.nameLower
             hasExcluded == \E token \in excludeTokens : ContainsToken(nameLower, token)
             isInt8 == ContainsToken(nameLower, Str.int8)
             skipped == \/ ~IsOnnxFile(entry)
                        \/ hasExcluded
                        \/ onlyInt8 /\ ~isInt8
                        \/ onlyNonInt8 /\ isInt8
         IN ChooseFrom(files, excludeTokens, onlyInt8, onlyNonInt8, i + 1,
                       IF ~skipped /\ entry.size >= best.bestSize
                       THEN [chosen |-> entry.name, bestSize |-> entry.size]
                       ELSE best)

ChooseLargest(files, excludeTokens, onlyInt8, onlyNonInt8) ==
    ChooseFrom(files, excludeTokens, onlyInt8, onlyNonInt8, 1,
               [chosen |-> NoPath, bestSize |-> 0])

\* std::optional<bool>
NoPreference == [has_value |-> FALSE, value |-> FALSE]
Prefer(b) == [has_value |-> TRUE, value |-> b]

\* Variant: the preference for or against int8 is ignored.
FindOnnxByTokenAnySize(files, token, preferInt8) ==
    LET tokenLower == ToLower(token)
        matches == SelectSeq(files, LAMBDA entry :
                       IsOnnxFile(entry) /\ ContainsToken(entry.nameLower, tokenLower))
    IN IF matches = <<>> THEN NoPath
       ELSE ChooseLargest(matches, {}, FALSE, FALSE)

FindOnnxByToken(files, token, preferInt8) ==
    LET tokenLower == ToLower(token)
        matches == SelectSeq(files, LAMBDA entry :
                       IsOnnxFile(entry) /\ ContainsToken(entry.nameLower, tokenLower))
        wantInt8 == preferInt8.has_value /\ preferInt8.value
        wantNonInt8 == preferInt8.has_value /\ ~preferInt8.value
        preferred == ChooseLargest(matches, {}, wantInt8, wantNonInt8)
    IN IF matches = <<>> THEN NoPath
       ELSE IF preferred # NoPath THEN preferred
            ELSE ChooseLargest(matches, {}, FALSE, FALSE)

\* tokens is the list of tokens, tried in order
FindOnnxByAnyToken(files, tokens, preferInt8) ==
    LET hits == {i \in 1..Len(tokens) : FindOnnxByToken(files, tokens[i], preferInt8) # NoPath}
    IN IF hits = {} THEN NoPath
       ELSE FindOnnxByToken(files, tokens[CHOOSE i \in hits : \A j \in hits : i <= j],
                            preferInt8)

FindLargestOnnxExcludingTokens(files, excludeTokens) ==
    ChooseLargest(files, excludeTokens, FALSE, FALSE)

\* The first entry of the listing that satisfies Test, NoPath when none does
FirstEntry(files, Test(_)) ==
    LET hits == {i \in 1..Len(files) : Test(files[i])}
    IN IF hits = {} THEN NoPath
       ELSE files[CHOOSE i \in hits : \A j \in hits : i <= j].name

FindFileByName(files, fileName) ==
    FirstEntry(files, LAMBDA entry : entry.nameLower = ToLower(fileName))

\* The lambda of FindFileEndingWith that reads a .txt file
IsLikelyTokensFile(entry) ==
    LET total == entry.lines.total
        matched == entry.lines.matched
        half == IF total \div 2 > 1 THEN total \div 2 ELSE 1
    IN total >= 2 /\ matched >= half

FindFileEndingWith(files, suffix) ==
    LET targetSuffix == ToLower(suffix)
        exact == FirstEntry(files, LAMBDA entry : entry.nameLower = targetSuffix)
        ending == FirstEntry(files, LAMBDA entry : EndsWith(entry.nameLower, targetSuffix))
        byContent == FirstEntry(files, LAMBDA entry :
                         /\ EndsWith(entry.nameLower, Str.dot_txt)
                         /\ IsLikelyTokensFile(entry))
    IN IF exact # NoPath THEN exact
       ELSE IF ending # NoPath THEN ending
       ELSE IF ContainsToken(targetSuffix, Str.tokens) THEN byContent
       ELSE NoPath

FindDirectoryByName(dir, dirName) ==
    IF \E d \in dir.dirs : ToLower(d) = ToLower(dirName)
    THEN CHOOSE d \in dir.dirs : ToLower(d) = ToLower(dirName)
    ELSE NoPath

\* No subdirectory of the directories tried here has qwen3 in its name, so the
\* tokenizer directory is the model directory or none.
ResolveTokenizerDir(dir) ==
    IF FileExists(dir, Str.vocab_json) THEN dir.name ELSE NoPath

-----------------------------------------------------------------------------
(* DetectSttModel of sherpa-onnx-model-detect-stt.cpp, which searches the    *)
(* listing by tokens.                                                         *)

\* std::optional<std::string>
NoModelType == [has_value |-> FALSE, value |-> ""]
ModelType(s) == [has_value |-> TRUE, value |-> s]

ParseSttModelType(modelType) ==
    CASE modelType = "transducer" -> "transducer"
      [] modelType = "nemo_transducer" -> "nemo_transducer"
      [] modelType = "paraformer" -> "paraformer"
      [] modelType = "nemo_ctc" -> "nemo_ctc"
      [] modelType = "wenet_ctc" -> "wenet_ctc"
      [] modelType = "sense_voice" -> "sense_voice"
      [] modelType \in {"zipformer_ctc", "ctc"} -> "zipformer_ctc"
      [] modelType = "whisper" -> "whisper"
      [] modelType = "funasr_nano" -> "funasr_nano"
      [] modelType = "fire_red_asr" -> "fire_red_asr"
      [] modelType = "moonshine" -> "moonshine"
      [] modelType = "dolphin" -> "dolphin"
      [] modelType = "canary" -> "canary"
      [] modelType = "omnilingual" -> "omnilingual"
      [] modelType = "medasr" -> "medasr"
      [] modelType = "telespeech_ctc" -> "telespeech_ctc"
      [] OTHER -> "unknown"

CtcKinds == {"nemo_ctc", "wenet_ctc", "sense_voice", "zipformer_ctc"}

\* An SttDetectResult: the fields a caller reads, the paths cut down to the
\* tokens file and the combined model file.
SttResult(ok, error, selectedKind, tokensRequired, tokens, model) ==
    [ok |-> ok, error |-> error, selectedKind |-> selectedKind,
     tokensRequired |-> tokensRequired, tokens |-> tokens, model |-> model]

\* A return before a kind is stored in the result
SttRefused(error) == SttResult(FALSE, error, "unknown", TRUE, NoPath, NoPath)

\* line 330
TokensRequired(selected) == selected # "funasr_nano"

modelExcludes ==
    {Str.encoder, Str.decoder, Str.joiner, Str.vocoder, Str.acoustic, Str.embedding,
     Str.llm, Str.encoder_adaptor, Str.encoder_dash_adaptor}

\* lines 105-113: the combined model file, by the token "model" or else the
\* largest .onnx file that is no part of another family
CombinedModel(files, preferInt8, excludes) ==
    LET byModel == FindOnnxByAnyToken(files, <<Str.model>>, preferInt8)
    IN IF byModel # NoPath THEN byModel
       ELSE FindLargestOnnxExcludingTokens(files, excludes)

\* lines 77-127: the files DetectSttModel finds in the listing
SttFiles(dir, preferInt8) ==
    [encoderPath |-> FindOnnxByAnyToken(dir.files, <<Str.encoder>>, preferInt8),
     decoderPath |-> FindOnnxByAnyToken(dir.files, <<Str.decoder>>, preferInt8),
     joinerPath |-> FindOnnxByAnyToken(dir.files, <<Str.joiner>>, preferInt8),
     funasrEncoderAdaptor |->
         FindOnnxByAnyToken(dir.files, <<Str.encoder_adaptor, Str.encoder_dash_adaptor>>,
                            preferInt8),
     funasrLLM |-> FindOnnxByAnyToken(dir.files, <<Str.llm>>, preferInt8),
     funasrEmbedding |-> FindOnnxByAnyToken(dir.files, <<Str.embedding>>, preferInt8),
     funasrTokenizerDir |-> ResolveTokenizerDir(dir),
     moonshinePreprocessor |->
         FindOnnxByAnyToken(dir.files, <<Str.preprocess, Str.preprocessor>>, preferInt8),
     moonshineEncoder |-> FindOnnxByAnyToken(dir.files, <<Str.encode>>, preferInt8),
     moonshineUncachedDecoder |->
         FindOnnxByAnyToken(dir.files, <<Str.uncached_decode, Str.uncached>>, preferInt8),
     moonshineCachedDecoder |->
         FindOnnxByAnyToken(dir.files, <<Str.cached_decode, Str.cached>>, preferInt8),
     paraformerModelPath |-> CombinedModel(dir.files, preferInt8, modelExcludes),
     ctcModelPath |-> CombinedModel(dir.files, preferInt8, modelExcludes),
     tokensPath |-> FindFileEndingWith(dir.files, Str.tokens_txt)]

\* lines 130-165: the families the files make up and the hints of the name
SttHas(dir, f) ==
    LET Likely(token) == ContainsToken(dir.name, token)
        hasTransducer ==
            f.encoderPath # NoPath /\ f.decoderPath # NoPath /\ f.joinerPath # NoPath
        hasModel == f.ctcModelPath # NoPath
    IN [hasTransducer |-> hasTransducer,
        hasWhisper |->
            f.encoderPath # NoPath /\ f.decoderPath # NoPath /\ f.joinerPath = NoPath,
        hasFunAsrNano |->
            /\ f.funasrEncoderAdaptor # NoPath
            /\ f.funasrLLM # NoPath
            /\ f.funasrEmbedding # NoPath
            /\ f.funasrTokenizerDir # NoPath /\ FileExists(dir, Str.vocab_json),
        isLikelyNemo |-> Likely(Str.nemo) \/ Likely(Str.parakeet),
        isLikelyWenetCtc |-> Likely(Str.wenet),
        isLikelySenseVoice |-> Likely(Str.sense) \/ Likely(Str.sensevoice),
        isLikelyFunAsrNano |-> Likely(Str.funasr) \/ Likely(Str.funasr_dash_nano),
        isLikelyMoonshine |-> Likely(Str.moonshine),
        hasMoonshine |->
            /\ f.moonshinePreprocessor # NoPath
            /\ f.moonshineUncachedDecoder # NoPath
            /\ f.moonshineCachedDecoder # NoPath
            /\ f.moonshineEncoder # NoPath,
        hasDolphin |-> Likely(Str.dolphin) /\ hasModel,
        hasFireRedAsr |-> hasTransducer /\ (Likely(Str.fire_red) \/ Likely(Str.fire_dash_red)),
        hasCanary |-> hasTransducer /\ Likely(Str.canary),
        hasOmnilingual |-> hasModel /\ Likely(Str.omnilingual),
        hasMedAsr |-> hasModel /\ Likely(Str.medasr),
        hasTeleSpeechCtc |->
            (hasModel \/ f.paraformerModelPath # NoPath) /\ Likely(Str.telespeech)]

\* lines 227-279: the error when the files of the requested kind are not there
SttMissing(f, has, requested) ==
    CASE requested = "transducer" /\ ~has.hasTransducer ->
             "Transducer model requested but files not found"
      [] requested = "nemo_transducer" /\ ~has.hasTransducer ->
             "NeMo Transducer model requested but encoder/decoder/joiner not found"
      [] requested = "paraformer" /\ f.paraformerModelPath = NoPath ->
             "Paraformer model requested but model file not found"
      [] requested \in CtcKinds /\ f.ctcModelPath = NoPath ->
             "CTC model requested but model file not found"
      [] requested = "whisper" /\ ~has.hasWhisper ->
             "Whisper model requested but encoder/decoder not found"
      [] requested = "funasr_nano" /\ ~has.hasFunAsrNano ->
             "FunASR Nano model requested but required files not found"
      [] requested = "moonshine" /\ ~has.hasMoonshine ->
             "Moonshine model requested but files not found"
      [] requested = "dolphin" /\ ~has.hasDolphin ->
             "Dolphin model requested but model not found"
      [] requested = "fire_red_asr" /\ ~has.hasFireRedAsr ->
             "FireRed ASR model requested but encoder/decoder not found"
      [] requested = "canary" /\ ~has.hasCanary ->
             "Canary model requested but encoder/decoder not found"
      [] requested = "omnilingual" /\ ~has.hasOmnilingual ->
             "Omnilingual model requested but model not found"
      [] requested = "medasr" /\ ~has.hasMedAsr ->
             "MedASR model requested but model not found"
      [] requested = "telespeech_ctc" /\ ~has.hasTeleSpeechCtc ->
             "TeleSpeech CTC model requested but model not found"
      [] OTHER -> ""

\* Variant: the chain with whisper tried before paraformer.
SttDetectedWhisperFirst(f, has) ==
    IF has.hasTransducer
    THEN (IF has.isLikelyNemo THEN "nemo_transducer" ELSE "transducer")
    ELSE IF f.ctcModelPath # NoPath
            /\ (has.isLikelyNemo \/ has.isLikelyWenetCtc \/ has.isLikelySenseVoice)
    THEN (IF has.isLikelyNemo THEN "nemo_ctc"
          ELSE IF has.isLikelyWenetCtc THEN "wenet_ctc" ELSE "sense_voice")
    ELSE IF has.hasFunAsrNano /\ has.isLikelyFunAsrNano THEN "funasr_nano"
    ELSE IF has.hasWhisper THEN "whisper"
    ELSE IF f.paraformerModelPath # NoPath THEN "paraformer"
    ELSE IF has.hasFunAsrNano THEN "funasr_nano"
    ELSE IF has.hasMoonshine /\ has.isLikelyMoonshine THEN "moonshine"
    ELSE IF has.hasDolphin THEN "dolphin"
    ELSE IF has.hasFireRedAsr THEN "fire_red_asr"
    ELSE IF has.hasCanary THEN "canary"
    ELSE IF has.hasOmnilingual THEN "omnilingual"
    ELSE IF has.hasMedAsr THEN "medasr"
    ELSE IF has.hasTeleSpeechCtc THEN "telespeech_ctc"
    ELSE IF f.ctcModelPath # NoPath THEN "zipformer_ctc"
    ELSE "unknown"

\* lines 282-316: the kind chosen when none is requested
SttDetected(f, has) ==
    IF has.hasTransducer
    THEN (IF has.isLikelyNemo THEN "nemo_transducer" ELSE "transducer")
    ELSE IF f.ctcModelPath # NoPath
            /\ (has.isLikelyNemo \/ has.isLikelyWenetCtc \/ has.isLikelySenseVoice)
    THEN (IF has.isLikelyNemo THEN "nemo_ctc"
          ELSE IF has.isLikelyWenetCtc THEN "wenet_ctc" ELSE "sense_voice")
    ELSE IF has.hasFunAsrNano /\ has.isLikelyFunAsrNano THEN "funasr_nano"
    ELSE IF f.paraformerModelPath # NoPath THEN "paraformer"
    ELSE IF has.hasWhisper THEN "whisper"
    ELSE IF has.hasFunAsrNano THEN "funasr_nano"
    ELSE IF has.hasMoonshine /\ has.isLikelyMoonshine THEN "moonshine"
    ELSE IF has.hasDolphin THEN "dolphin"
    ELSE IF has.hasFireRedAsr THEN "fire_red_asr"
    ELSE IF has.hasCanary THEN "canary"
    ELSE IF has.hasOmnilingual THEN "omnilingual"
    ELSE IF has.hasMedAsr THEN "medasr"
    ELSE IF has.hasTeleSpeechCtc THEN "telespeech_ctc"
    ELSE IF f.ctcModelPath # NoPath THEN "zipformer_ctc"
    ELSE "unknown"

\* lines 218-386, once the files and the families are known
SttSelect(dir, f, has, modelType) ==
    LET explicit == modelType.has_value /\ modelType.value # "auto"
        requested == ParseSttModelType(modelType.value)
        missing == SttMissing(f, has, requested)
        selected == IF explicit THEN requested ELSE SttDetected(f, has)
        tokensRequired == TokensRequired(selected)
        tokensFound == f.tokensPath # NoPath /\ FileExists(dir, f.tokensPath)
        model == IF selected \in CtcKinds \cup {"paraformer"} THEN f.paraformerModelPath
                 ELSE NoPath
    IN IF explicit /\ requested = "unknown" THEN SttRefused("Unknown model type")
       ELSE IF explicit /\ missing # "" THEN SttRefused(missing)
       ELSE IF selected = "unknown" THEN SttRefused("No compatible model type detected")
       ELSE IF ~tokensFound /\ tokensRequired
       THEN SttResult(FALSE, "Tokens file not found", selected, tokensRequired, NoPath, model)
       ELSE SttResult(TRUE, "", selected, tokensRequired,
                      IF tokensFound THEN f.tokensPath ELSE NoPath, model)

SttFamilies(dir, f, modelType) == SttSelect(dir, f, SttHas(dir, f), modelType)

DetectSttModel(dir, preferInt8, modelType) ==
    IF dir.name = NoPath THEN SttRefused("Model directory is empty")
    ELSE SttFamilies(dir, SttFiles(dir, preferInt8), modelType)

-----------------------------------------------------------------------------
(* SttWrapper::initialize of sherpa-onnx-stt-wrapper.cpp, from the detection *)
(* to the construction of the recognizer                                     *)

\* lines 94-121: the kinds the switch has a case for
ConfiguredKinds ==
    {"transducer", "paraformer", "nemo_ctc", "wenet_ctc", "sense_voice", "zipformer_ctc",
     "whisper", "funasr_nano"}

\* lines 81-127: [detect, error, creates]; creates tells that the function
\* goes on to OfflineRecognizer::Create
SttConfigure(detect) ==
    IF ~detect.ok
    THEN [detect |-> detect, error |-> detect.error, creates |-> FALSE]
    ELSE IF detect.selectedKind \in ConfiguredKinds
    THEN [detect |-> detect, error |-> "", creates |-> TRUE]
    ELSE [detect |-> detect, error |-> "No compatible model type detected",
          creates |-> FALSE]

-----------------------------------------------------------------------------
(* DetectSttModel of sherpa-onnx-model-detect.cpp, which looks the files up  *)
(* by fixed names in the model directory.                                     *)

ParseSttModelTypeFixedNames(modelType) ==
    CASE modelType = "transducer" -> "transducer"
      [] modelType = "paraformer" -> "paraformer"
      [] modelType = "nemo_ctc" -> "nemo_ctc"
      [] modelType = "wenet_ctc" -> "wenet_ctc"
      [] modelType = "sense_voice" -> "sense_voice"
      [] modelType \in {"zipformer_ctc", "ctc"} -> "zipformer_ctc"
      [] modelType = "whisper" -> "whisper"
      [] modelType = "funasr_nano" -> "funasr_nano"
      [] OTHER -> "unknown"

\* line 343
TokensRequiredFixedNames(selected) == selected \notin {"whisper", "funasr_nano"}

\* lines 188-232: model.int8.onnx or model.onnx, by preference
CombinedModelFixedNames(dir, preferInt8) ==
    LET hasInt8 == FileExists(dir, Str.model_int8_onnx)
        hasPlain == FileExists(dir, Str.model_onnx)
    IN IF preferInt8.has_value /\ ~preferInt8.value
       THEN (IF hasPlain THEN Str.model_onnx
             ELSE IF hasInt8 THEN Str.model_int8_onnx ELSE NoPath)
       ELSE (IF hasInt8 THEN Str.model_int8_onnx
             ELSE IF hasPlain THEN Str.model_onnx ELSE NoPath)

DetectSttModelFixedNames(dir, preferInt8, modelType) ==
    LET modelDir == dir.name
        Present(name) == FileExists(dir, name)
        paraformerModelPath == CombinedModelFixedNames(dir, preferInt8)
        ctcModelPath == CombinedModelFixedNames(dir, preferInt8)
        hasTransducer ==
            Present(Str.encoder_onnx) /\ Present(Str.decoder_onnx) /\ Present(Str.joiner_onnx)
        hasWhisper ==
            /\ Present(Str.encoder_onnx) \/ Present(Str.encoder_int8_onnx)
            /\ Present(Str.decoder_onnx) \/ Present(Str.decoder_int8_onnx)
            /\ ~Present(Str.joiner_onnx)
        hasFunAsrNano ==
            /\ Present(Str.encoder_adaptor_onnx) \/ Present(Str.encoder_adaptor_int8_onnx)
            /\ Present(Str.llm_onnx) \/ Present(Str.llm_int8_onnx)
            /\ Present(Str.embedding_onnx) \/ Present(Str.embedding_int8_onnx)
            /\ ResolveTokenizerDir(dir) # NoPath /\ Present(Str.vocab_json)
        Likely(token) == ContainsToken(modelDir, token)
        isLikelyNemoCtc == Likely(Str.nemo) \/ Likely(Str.parakeet)
        isLikelyWenetCtc == Likely(Str.wenet)
        isLikelySenseVoice == Likely(Str.sense) \/ Likely(Str.sensevoice)
        isLikelyFunAsrNano == Likely(Str.funasr) \/ Likely(Str.funasr_dash_nano)
        explicit == modelType.has_value /\ modelType.value # "auto"
        requested == ParseSttModelTypeFixedNames(modelType.value)
        \* lines 291-312
        missing ==
            CASE requested = "transducer" /\ ~hasTransducer ->
                     "Transducer model requested but files not found"
              [] requested = "paraformer" /\ paraformerModelPath = NoPath ->
                     "Paraformer model requested but model.onnx not found"
              [] requested \in CtcKinds /\ ctcModelPath = NoPath ->
                     "CTC model requested but model.onnx not found"
              [] requested = "whisper" /\ ~hasWhisper ->
                     "Whisper model requested but encoder/decoder not found"
              [] requested = "funasr_nano" /\ ~hasFunAsrNano ->
                     "FunASR Nano model requested but required files not found"
              [] OTHER -> ""
        \* lines 313-335
        detected ==
            IF hasTransducer THEN "transducer"
            ELSE IF ctcModelPath # NoPath
                    /\ (isLikelyNemoCtc \/ isLikelyWenetCtc \/ isLikelySenseVoice)
            THEN (IF isLikelyNemoCtc THEN "nemo_ctc"
                  ELSE IF isLikelyWenetCtc THEN "wenet_ctc" ELSE "sense_voice")
            ELSE IF hasFunAsrNano /\ isLikelyFunAsrNano THEN "funasr_nano"
            ELSE IF paraformerModelPath # NoPath THEN "paraformer"
            ELSE IF hasWhisper THEN "whisper"
            ELSE IF hasFunAsrNano THEN "funasr_nano"
            ELSE IF ctcModelPath # NoPath THEN "zipformer_ctc"
            ELSE "unknown"
        selected == IF explicit THEN requested ELSE detected
        tokensRequired == TokensRequiredFixedNames(selected)
        tokensFound == Present(Str.tokens_txt)
        model == IF selected \in CtcKinds \cup {"paraformer"} THEN paraformerModelPath
                 ELSE NoPath
    IN IF modelDir = NoPath THEN SttRefused("Model directory is empty")
       ELSE IF explicit /\ requested = "unknown" THEN SttRefused("Unknown model type")
       ELSE IF explicit /\ missing # "" THEN SttRefused(missing)
       ELSE IF selected = "unknown" THEN SttRefused("No compatible model type detected")
       ELSE IF ~tokensFound /\ tokensRequired
       THEN SttResult(FALSE, "Tokens file not found", selected, tokensRequired, NoPath, model)
       ELSE SttResult(TRUE, "", selected, tokensRequired,
                      IF tokensFound THEN Str.tokens_txt ELSE NoPath, model)

-----------------------------------------------------------------------------
(* DetectTtsModel of sherpa-onnx-model-detect-tts.cpp *)

ParseTtsModelType(modelType) ==
    CASE modelType = "vits" -> "vits"
      [] modelType = "matcha" -> "matcha"
      [] modelType = "kokoro" -> "kokoro"
      [] modelType = "kitten" -> "kitten"
      [] modelType = "pocket" -> "pocket"
      [] modelType = "zipvoice" -> "zipvoice"
      [] OTHER -> "unknown"

\* A TtsDetectResult: the fields a caller reads, the paths cut down to the
\* combined model file and the voices file.
TtsResult(ok, error, detectedModels, selectedKind, ttsModel, voices) ==
    [ok |-> ok, error |-> error, detectedModels |-> detectedModels,
     selectedKind |-> selectedKind, ttsModel |-> ttsModel, voices |-> voices]

ttsModelExcludes == {Str.acoustic, Str.vocoder, Str.encoder, Str.decoder, Str.joiner}

\* lines 43-84: the files DetectTtsModel finds
TtsFiles(dir) ==
    [tokensFile |-> FindFileByName(dir.files, Str.tokens_txt),
     lexiconFile |-> FindFileByName(dir.files, Str.lexicon_txt),
     dataDirPath |-> FindDirectoryByName(dir, Str.espeak_ng_data),
     voicesFile |-> FindFileByName(dir.files, Str.voices_bin),
     acousticModel |->
         FindOnnxByAnyToken(dir.files, <<Str.acoustic_model, Str.acoustic_dash_model>>,
                            NoPreference),
     vocoder |-> FindOnnxByAnyToken(dir.files, <<Str.vocoder, Str.vocos>>, NoPreference),
     encoder |-> FindOnnxByAnyToken(dir.files, <<Str.encoder>>, NoPreference),
     decoder |-> FindOnnxByAnyToken(dir.files, <<Str.decoder>>, NoPreference),
     lmFlow |-> FindOnnxByAnyToken(dir.files, <<Str.lm_flow, Str.lm_dash_flow>>, NoPreference),
     lmMain |-> FindOnnxByAnyToken(dir.files, <<Str.lm_main, Str.lm_dash_main>>, NoPreference),
     textConditioner |->
         FindOnnxByAnyToken(dir.files, <<Str.text_conditioner, Str.text_dash_conditioner>>,
                            NoPreference),
     vocabJsonFile |-> FindFileByName(dir.files, Str.vocab_json),
     tokenScoresJsonFile |-> FindFileByName(dir.files, Str.token_scores_json),
     ttsModel |-> CombinedModel(dir.files, NoPreference, ttsModelExcludes)]

\* lines 86-102: the families the files make up and the hints of the name
TtsHas(dir, f) ==
    LET Found(path) == path # NoPath
        Held(path) == path # NoPath /\ FileExists(dir, path)
        modelDirLower == ToLower(dir.name)
    IN [hasVits |-> Found(f.ttsModel),
        hasMatcha |-> Found(f.acousticModel) /\ Found(f.vocoder),
        hasVoicesFile |-> Held(f.voicesFile),
        hasZipvoice |->
            \/ Found(f.encoder) /\ Found(f.decoder) /\ Found(f.vocoder)
            \/ Found(f.encoder) /\ Found(f.decoder) /\ Held(f.lexiconFile)
               /\ Held(f.tokensFile),
        hasPocket |->
            /\ Found(f.lmFlow) /\ Found(f.lmMain) /\ Found(f.encoder) /\ Found(f.decoder)
            /\ Found(f.textConditioner)
            /\ Held(f.vocabJsonFile) /\ Held(f.tokenScoresJsonFile),
        hasDataDir |-> Found(f.dataDirPath) /\ f.dataDirPath \in dir.dirs,
        hasTokens |-> Held(f.tokensFile),
        isLikelyKitten |-> ContainsToken(modelDirLower, Str.kitten),
        isLikelyKokoro |-> ContainsToken(modelDirLower, Str.kokoro),
        isLikelyVits |-> ContainsToken(modelDirLower, Str.vits)]

\* lines 104-140: the hypotheses, in the order they are offered
TtsDetectedModels(has) ==
    LET voicesAmbiguous == ~has.isLikelyKitten /\ ~has.isLikelyKokoro
        addVits == has.hasVits /\ (~has.hasVoicesFile \/ has.isLikelyVits \/ voicesAmbiguous)
    IN (IF has.hasMatcha THEN <<"matcha">> ELSE <<>>)
       \o (IF has.hasPocket THEN <<"pocket">> ELSE <<>>)
       \o (IF has.hasZipvoice /\ ~has.hasMatcha THEN <<"zipvoice">> ELSE <<>>)
       \o (IF ~has.hasVoicesFile THEN <<>>
           ELSE IF has.isLikelyKitten /\ ~has.isLikelyKokoro THEN <<"kitten">>
           ELSE IF has.isLikelyKokoro /\ ~has.isLikelyKitten THEN <<"kokoro">>
           ELSE <<"kokoro", "kitten">>)
       \o (IF addVits THEN <<"vits">> ELSE <<>>)

\* Variant: a voices file never takes the selection away from the combined model.
SelectByVoicesNever(has) == "unknown"

\* lines 156-163: the kind a voices file selects
SelectByVoices(has) ==
    IF ~has.hasVoicesFile THEN "unknown"
    ELSE IF has.isLikelyKitten /\ ~has.isLikelyKokoro THEN "kitten"
    ELSE "kokoro"

\* lines 142-166
TtsSelected(has, modelType) ==
    IF modelType # "auto" THEN ParseTtsModelType(modelType)
    ELSE IF has.hasMatcha THEN "matcha"
    ELSE IF has.hasPocket THEN "pocket"
    ELSE IF has.hasZipvoice THEN "zipvoice"
    ELSE IF has.hasVoicesFile THEN SelectByVoices(has)
    ELSE IF has.hasVits THEN "vits"
    ELSE "unknown"

\* lines 145-148 and 169-233: the checks on the selected kind and the result
TtsValidate(f, has, detectedModels, selected, modelType) ==
    LET error ==
            IF modelType # "auto" /\ selected = "unknown" THEN "TTS: Unknown model type"
            ELSE IF selected = "unknown" THEN "TTS: No compatible model type detected"
            ELSE IF selected = "vits" /\ ~has.hasVits
            THEN "TTS: VITS model requested but model file not found"
            ELSE IF selected = "matcha" /\ ~has.hasMatcha
            THEN "TTS: Matcha model requested but required files not found"
            ELSE IF selected \in {"kokoro", "kitten"} /\ (~has.hasVits \/ ~has.hasVoicesFile)
            THEN "TTS: Kokoro/Kitten model requested but required files not found"
            ELSE IF selected = "pocket" /\ ~has.hasPocket
            THEN "TTS: Pocket model requested but required files not found"
            ELSE IF selected = "zipvoice" /\ ~has.hasZipvoice
            THEN "TTS: Zipvoice model requested but required files not found"
            ELSE IF selected \in {"vits", "matcha", "kokoro", "kitten", "zipvoice"}
                    /\ ~has.hasDataDir
            THEN "TTS: espeak-ng-data not found"
            ELSE ""
    IN IF error # ""
       THEN TtsResult(FALSE, error, detectedModels, "unknown", NoPath, NoPath)
       ELSE IF selected # "pocket" /\ ~has.hasTokens
       THEN TtsResult(FALSE, "TTS: tokens.txt not found", detectedModels, selected,
                      f.ttsModel, f.voicesFile)
       ELSE TtsResult(TRUE, "", detectedModels, selected, f.ttsModel, f.voicesFile)

TtsSelect(f, has, modelType) ==
    TtsValidate(f, has, TtsDetectedModels(has), TtsSelected(has, modelType), modelType)

TtsFamilies(dir, f, modelType) == TtsSelect(f, TtsHas(dir, f), modelType)

DetectTtsModel(dir, modelType) ==
    IF dir.name = NoPath
    THEN TtsResult(FALSE, "TTS: Model directory is empty", <<>>, "unknown", NoPath, NoPath)
    ELSE TtsFamilies(dir, TtsFiles(dir), modelType)

-----------------------------------------------------------------------------
(* The state of the detection calls *)

NoDirectory == [name |-> NoPath, files |-> <<>>, dirs |-> {}]
NoDetIn ==
    [dir |-> NoDirectory, preferInt8 |-> NoPreference, modelType |-> NoModelType,
     token |-> NoPath]
NoDetOut == [fn |-> "none", result |-> NoPath]

DetStart ==
    /\ detPc = "idle"
    /\ detIn = NoDetIn
    /\ detOut = NoDetOut

-----------------------------------------------------------------------------
(* Audio conversion: convertToWav16kMono and convertToFormat of              *)
(* sherpa-onnx-audio-convert-jni.cpp, as the sequence of their library calls. *)
(* A step is a call; it acquires native resources when it succeeds and the    *)
(* code after it releases some when it fails, then returns the error.         *)

\* acquires: what the call allocates when it succeeds; settles: the sets of
\* resources that may be gone after it succeeded (one of them is); errors: the
\* messages of its failure returns, none when the code does not test the call;
\* releases: what the failure branch frees before it returns.
Step(acquires, settles, errors, releases) ==
    [acquires |-> acquires, settles |-> settles, errors |-> errors, releases |-> releases]

\* lines 32-73 and 327-367: the input is opened and its decoder set up
OpenInputSteps ==
    << Step({"inFmt"}, {{}}, {"Failed to open input file"}, {}),
       Step({}, {{}}, {"Failed to find stream info"}, {"inFmt"}),
       Step({}, {{}}, {"No audio stream found in input"}, {"inFmt"}),
       Step({}, {{}}, {"Unsupported input codec"}, {"inFmt"}),
       Step({"decCtx"}, {{}}, {"Failed to allocate decoder context"}, {"inFmt"}),
       Step({}, {{}}, {"Failed to copy codec parameters"}, {"decCtx", "inFmt"}),
       Step({}, {{}}, {"Failed to open decoder"}, {"decCtx", "inFmt"}) >>

\* avio_open is called unless the output format has AVFMT_NOFILE
OutputFile(nofile) == IF nofile THEN {} ELSE {"pb"}

\* lines 203-210: what the failure branch of av_channel_layout_copy frees
WavFrameLayoutReleases == {"frame", "resampled", "swr", "decCtx", "inFmt"}

\* convertToWav16kMono, lines 27-301
WavSteps(nofile) ==
    OpenInputSteps \o
    << \* lines 75-102: the resampler
       Step({"in_ch_layout"}, {{}},
            {"Failed to copy input channel layout", "Failed to initialize input channel layout"},
            {"decCtx", "inFmt"}),
       Step({"swr"}, {{"in_ch_layout"}}, {"Failed to initialize resampler"},
            {"in_ch_layout", "swr", "decCtx", "inFmt"}),
       \* lines 104-173: the output context, its stream and the encoder
       Step({"outFmt"}, {{}}, {"Failed to allocate output context"},
            {"swr", "decCtx", "inFmt"}),
       Step({}, {{}}, {"PCM encoder not found"}, {"outFmt", "swr", "decCtx", "inFmt"}),
       Step({}, {{}}, {"Failed to create output stream"}, {"outFmt", "swr", "decCtx", "inFmt"}),
       Step({"encCtx"}, {{}}, {"Failed to allocate encoder context"},
            {"outFmt", "swr", "decCtx", "inFmt"}),
       Step({}, {{}}, {"Failed to set encoder channel layout"},
            {"encCtx", "outFmt", "swr", "decCtx", "inFmt"}),
       Step({}, {{}}, {"Failed to open PCM encoder"},
            {"encCtx", "outFmt", "swr", "decCtx", "inFmt"}),
       Step({}, {{}}, {"Failed to set output stream parameters"},
            {"encCtx", "outFmt", "swr", "decCtx", "inFmt"}),
       \* lines 175-194: the output file and its header
       Step(OutputFile(nofile), {{}}, {"Failed to open output file for writing"},
            {"encCtx", "outFmt", "swr", "decCtx", "inFmt"}),
       Step({}, {{}}, {"Failed to write output header"},
            {"pb", "encCtx", "outFmt", "swr", "decCtx", "inFmt"}),
       \* lines 196-210: the packet and the frames; their allocation is not tested
       Step({"pkt", "frame", "resampled"}, {{}}, {}, {}),
       Step({}, {{}}, {"Failed to set resampled frame channel layout"},
            WavFrameLayoutReleases),
       \* lines 214-296: the decoding loop, the flush, the trailer and the release
       Step({}, {{"pb", "pkt", "frame", "resampled", "swr", "encCtx", "outFmt",
                  "decCtx", "inFmt"}}, {}, {}) >>

\* lines 556-570: options are set for every encoder but libshine
EncoderOptions(codec) == IF codec = "mp3" THEN {} ELSE {"enc_opts"}

\* convertToFormat for mp3 and flac, lines 325-822
FormatSteps(codec, nofile) ==
    OpenInputSteps \o
    << \* lines 372-438: the output context, the encoder and its channel layout
       Step({"outFmt"}, {{}}, {"Failed to allocate output context"},
            {"swr", "decCtx", "inFmt"}),
       Step({}, {{}},
            {IF codec = "mp3" THEN "libshine encoder not available in this build"
                              ELSE "Requested encoder not available in this build"},
            {"outFmt", "swr", "decCtx", "inFmt"}),
       Step({}, {{}}, {"Failed to create output stream"}, {"outFmt", "swr", "decCtx", "inFmt"}),
       Step({"encCtx"}, {{}}, {"Failed to allocate encoder context"},
            {"outFmt", "swr", "decCtx", "inFmt"}),
       Step({}, {{}},
            {"Failed to copy input channel layout to encoder",
             "Failed to set encoder channel layout"},
            {"encCtx", "outFmt", "swr", "decCtx", "inFmt"}),
       \* lines 556-647: the options and avcodec_open2, which takes out of
       \* enc_opts the entries it knows; the retries free the dictionary
       Step(EncoderOptions(codec), {{}}, {}, {}),
       Step({}, {{}, {"enc_opts"}}, {"Failed to open encoder"},
            {"enc_opts", "encCtx", "outFmt", "swr", "decCtx", "inFmt"}),
       Step({}, {{}}, {"Failed to set output stream parameters"},
            {"encCtx", "outFmt", "swr", "decCtx", "inFmt"}),
       \* lines 658-677: the output file and its header
       Step(OutputFile(nofile), {{}}, {"Failed to open output file for writing"},
            {"encCtx", "outFmt", "swr", "decCtx", "inFmt"}),
       Step({}, {{}}, {"Failed to write output header"},
            {"pb", "encCtx", "outFmt", "swr", "decCtx", "inFmt"}),
       \* lines 679-742: the packet, the frames and the resampler
       Step({"pkt", "frame", "resampled"}, {{}}, {}, {}),
       Step({}, {{}}, {"Failed to set resampled channel layout"},
            {"frame", "resampled", "pkt", "encCtx", "outFmt", "decCtx", "inFmt"}),
       Step({"in_ch_layout2"}, {{}},
            {"Failed to copy input channel layout", "Failed to init input channel layout"},
            {"frame", "resampled", "pkt", "encCtx", "outFmt", "swr", "decCtx", "inFmt"}),
       Step({"swr"}, {{"in_ch_layout2"}}, {"Failed to initialize resampler"},
            {"in_ch_layout2", "swr", "frame", "resampled", "pkt", "encCtx", "outFmt",
             "decCtx", "inFmt"}),
       \* lines 744-822: the decoding loop, the flush, the trailer and the release
       Step({}, {{"pb", "pkt", "frame", "resampled", "swr", "encCtx", "outFmt",
                  "decCtx", "inFmt"}}, {}, {}) >>

\* lines 308-320: the codec convertToFormat encodes with; wav and every
\* unknown hint go to convertToWav16kMono
CodecOf(formatHint) ==
    IF formatHint \in {"mp3", "flac"} THEN formatHint ELSE "wav"

\* The calls that a conversion makes, in order
StepsOf(fn, formatHint, nofile) ==
    IF fn = "convertToWav16kMono" \/ CodecOf(formatHint) = "wav"
    THEN WavSteps(nofile)
    ELSE FormatSteps(CodecOf(formatHint), nofile)

NoConversion == [fn |-> "none", formatHint |-> "", nofile |-> FALSE]

CvStart ==
    /\ cvPc = "idle"
    /\ cvIn = NoConversion
    /\ cvStep = 0
    /\ cvHeld = {}
    /\ cvRet = "none"

PureStart == ShaStart /\ DetStart /\ CvStart

LibStart == MxStart /\ PureStart

-----------------------------------------------------------------------------
(* STT: nativeSttInitialize, SttWrapper::initialize, nativeSttRelease *)

\* SttWrapper::isInitialized, stt-wrapper.cpp 312-314
SttIsInitialized == stt_initialized /\ stt_recognizer \notin {NoEngine, NullHandle}

\* Variant: a release that keeps the cached model directory.
SttWrapperReleaseKeepDir ==
    IF stt_initialized \/ stt_recognizer # NoEngine
    THEN /\ stt_recognizer' = NoEngine
         /\ sttLive' = sttLive \ {stt_recognizer}
         /\ stt_initialized' = FALSE
         /\ UNCHANGED stt_modelDir
    ELSE UNCHANGED <<stt_recognizer, sttLive, stt_initialized, stt_modelDir>>

\* SttWrapper::release, stt-wrapper.cpp 316-324
SttWrapperRelease ==
    IF stt_initialized \/ stt_recognizer # NoEngine
    THEN /\ stt_recognizer' = NoEngine
         /\ sttLive' = sttLive \ {stt_recognizer}
         /\ stt_initialized' = FALSE
         /\ stt_modelDir' = ""
    ELSE UNCHANGED <<stt_recognizer, sttLive, stt_initialized, stt_modelDir>>

\* Variant: SttWrapper::initialize without lines 62-64, the engine of the
\* previous call is not released first.
SttInitBeginNoRelease ==
    /\ brPc = "idle"
    /\ \E dir \in ModelDirs, env \in InitEnvs :
         /\ g_stt_wrapper' = "SttWrapper"
         /\ UNCHANGED <<stt_recognizer, sttLive, stt_initialized, stt_modelDir>>
         /\ IF env = "jniString"
            THEN UNCHANGED <<sttCalls, brPc, brDir>>
            ELSE IF dir = "" \/ env # "ok"
                 THEN /\ sttCalls' = Push(sttCalls, InitCall(dir, FALSE))
                      /\ UNCHANGED <<brPc, brDir>>
                 ELSE /\ brPc' = "sttCreate"
                      /\ brDir' = dir
                      /\ UNCHANGED sttCalls
    /\ UNCHANGED <<brTemp, ttsVars, cbVars, gsVars, archVars, libVars>>

\* nativeSttInitialize, stt-jni.cpp 31-47 (the wrapper is made if null; a
\* null string returns at once), and SttWrapper::initialize up to Create(),
\* stt-wrapper.cpp 62-127: release when initialized, the empty directory,
\* the detection, the switch on the detected kind.
SttInitBegin ==
    /\ brPc = "idle"
    /\ \E dir \in ModelDirs, env \in InitEnvs :
         /\ g_stt_wrapper' = "SttWrapper"
         /\ IF env = "jniString"
            THEN UNCHANGED <<stt_recognizer, sttLive, stt_initialized, stt_modelDir,
                             sttCalls, brPc, brDir>>
            ELSE /\ IF stt_initialized
                    THEN SttWrapperRelease
                    ELSE UNCHANGED <<stt_recognizer, sttLive, stt_initialized, stt_modelDir>>
                 /\ IF dir = "" \/ env # "ok"
                    THEN /\ sttCalls' = Push(sttCalls, InitCall(dir, FALSE))
                         /\ UNCHANGED <<brPc, brDir>>
                    ELSE /\ brPc' = "sttCreate"
                         /\ brDir' = dir
                         /\ UNCHANGED sttCalls
    /\ UNCHANGED <<brTemp, ttsVars, cbVars, gsVars, archVars, libVars>>

\* Variant: Create() building the engine from the directory of the previous
\* call instead of this call's.
SttCreateStaleDir ==
    /\ brPc = "sttCreate"
    /\ LET e == [id |-> FreeId(EngineIds(sttLive)),
                 dir |-> IF sttCalls = <<>> THEN "m1" ELSE sttCalls[Len(sttCalls)].dir]
       IN /\ sttLive' = sttLive \cup {e}
          /\ brTemp' = e
          /\ brPc' = "sttAssign"
    /\ UNCHANGED <<sttCalls, brDir>>
    /\ UNCHANGED <<g_stt_wrapper, stt_initialized, stt_modelDir, stt_recognizer>>
    /\ UNCHANGED <<ttsVars, cbVars, gsVars, archVars, libVars>>

\* OfflineRecognizer::Create(config), the right-hand side of line 185: a new
\* engine object comes to exist, or an object with a null handle, or the
\* call throws (caught at 186-190 or 216-224: initialize returns a failure).
SttCreate ==
    /\ brPc = "sttCreate"
    /\ \E out \in CreateOutcomes :
         CASE out = "engine" ->
                LET e == [id |-> FreeId(EngineIds(sttLive)), dir |-> brDir]
                IN /\ sttLive' = sttLive \cup {e}
                   /\ brTemp' = e
                   /\ brPc' = "sttAssign"
                   /\ UNCHANGED <<sttCalls, brDir>>
           [] out = "nullHandle" ->
                /\ brTemp' = NullHandle
                /\ brPc' = "sttAssign"
                /\ UNCHANGED <<sttLive, sttCalls, brDir>>
           [] out = "throw" ->
                /\ sttCalls' = Push(sttCalls, InitCall(brDir, FALSE))
                /\ brPc' = "idle"
                /\ brDir' = ""
                /\ UNCHANGED <<sttLive, brTemp>>
    /\ UNCHANGED <<g_stt_wrapper, stt_initialized, stt_modelDir, stt_recognizer>>
    /\ UNCHANGED <<ttsVars, cbVars, gsVars, archVars, libVars>>

\* Variant: SttWrapper::initialize without the reset of line 202, the object
\* with the null handle stays in the optional.
SttAssignKeepsNull ==
    /\ brPc = "sttAssign"
    /\ IF brTemp = NullHandle
       THEN /\ stt_recognizer' = NullHandle
            /\ sttLive' = sttLive \ {stt_recognizer}
            /\ sttCalls' = Push(sttCalls, InitCall(brDir, FALSE))
            /\ UNCHANGED <<stt_initialized, stt_modelDir>>
       ELSE /\ stt_recognizer' = brTemp
            /\ sttLive' = sttLive \ {stt_recognizer}
            /\ stt_modelDir' = brDir
            /\ stt_initialized' = TRUE
            /\ sttCalls' = Push(sttCalls, InitCall(brDir, TRUE))
    /\ brPc' = "idle"
    /\ brDir' = ""
    /\ brTemp' = NoEngine
    /\ UNCHANGED <<g_stt_wrapper, ttsVars, cbVars, gsVars, archVars, libVars>>

\* The assignment of line 185 (the value the optional held is destroyed) and
\* lines 194-214: a null handle resets the optional and fails, otherwise
\* modelDir and initialized are set and the call succeeds.
SttAssign ==
    /\ brPc = "sttAssign"
    /\ IF brTemp = NullHandle
       THEN /\ stt_recognizer' = NoEngine
            /\ sttLive' = sttLive \ {stt_recognizer}
            /\ sttCalls' = Push(sttCalls, InitCall(brDir, FALSE))
            /\ UNCHANGED <<stt_initialized, stt_modelDir>>
       ELSE /\ stt_recognizer' = brTemp
            /\ sttLive' = sttLive \ {stt_recognizer}
            /\ stt_modelDir' = brDir
            /\ stt_initialized' = TRUE
            /\ sttCalls' = Push(sttCalls, InitCall(brDir, TRUE))
    /\ brPc' = "idle"
    /\ brDir' = ""
    /\ brTemp' = NoEngine
    /\ UNCHANGED <<g_stt_wrapper, ttsVars, cbVars, gsVars, archVars, libVars>>

\* nativeSttRelease, stt-jni.cpp 315-327: release() and then
\* g_stt_wrapper.reset(), which destroys the wrapper object.
NativeSttRelease ==
    /\ brPc = "idle"
    /\ IF g_stt_wrapper # "nullptr"
       THEN /\ SttWrapperRelease
            /\ g_stt_wrapper' = "nullptr"
       ELSE UNCHANGED <<stt_recognizer, sttLive, stt_initialized, stt_modelDir,
                        g_stt_wrapper>>
    /\ sttCalls' = Push(sttCalls, ReleaseCall)
    /\ UNCHANGED <<brVars, ttsVars, cbVars, gsVars, archVars, libVars>>

-----------------------------------------------------------------------------
(* TTS: nativeTtsInitialize, TtsWrapper::initialize, nativeTtsRelease *)

\* TtsWrapper::isInitialized, tts-wrapper.cpp 414-416
TtsIsInitialized == tts_initialized /\ tts_tts \notin {NoEngine, NullHandle}

\* TtsWrapper::release, tts-wrapper.cpp 418-438: the engine is destroyed and
\* the callback map cleared, which destroys the callbacks only the map held.
TtsWrapperRelease ==
    IF tts_initialized \/ tts_tts # NoEngine
    THEN /\ tts_tts' = NoEngine
         /\ ttsLive' = ttsLive \ {tts_tts}
         /\ activeStreamCallbacks' = NoCallbacks
         /\ cbAlive' = cbAlive \cap CbRefs(NoCallbacks, gsCbPtr)
         /\ tts_initialized' = FALSE
         /\ tts_modelDir' = ""
    ELSE UNCHANGED <<tts_tts, ttsLive, activeStreamCallbacks, cbAlive, tts_initialized,
                     tts_modelDir>>

\* nativeTtsInitialize, tts-jni.cpp 66-92: the guard is cleared, an existing
\* wrapper releases its engine (a missing one is made), a null string returns
\* at once; then TtsWrapper::initialize up to Create(), tts-wrapper.cpp
\* 68-157: release when initialized, the empty directory, the detection, the
\* switch on the detected kind.
TtsInitBeginFrom(dirs) ==
    /\ brPc = "idle"
    /\ \E dir \in dirs, env \in InitEnvs :
         /\ g_tts_skip_next_release' = FALSE
         /\ g_tts_wrapper' = "TtsWrapper"
         /\ TtsWrapperRelease
         /\ IF dir = "" \/ env # "ok"
            THEN UNCHANGED <<brPc, brDir>>
            ELSE /\ brPc' = "ttsCreate"
                 /\ brDir' = dir
    /\ UNCHANGED <<brTemp, sttVars, gsVars, archVars, libVars>>

\* nativeTtsInitialize with any of the model directories
TtsInitBegin == TtsInitBeginFrom(ModelDirs)

\* nativeTtsInitialize with the one model directory the streaming threads use
TtsInitBeginStream == TtsInitBeginFrom({"m1"})

\* OfflineTts::Create(config), the right-hand side of tts-wrapper.cpp 205: a
\* new engine object, an object with a null handle, or an exception (caught
\* at 256-264: initialize returns a failure, the guard stays cleared).
TtsCreate ==
    /\ brPc = "ttsCreate"
    /\ \E out \in CreateOutcomes :
         CASE out = "engine" ->
                LET e == [id |-> FreeId(EngineIds(ttsLive)), dir |-> brDir]
                IN /\ ttsLive' = ttsLive \cup {e}
                   /\ brTemp' = e
                   /\ brPc' = "ttsAssign"
                   /\ UNCHANGED brDir
           [] out = "nullHandle" ->
                /\ brTemp' = NullHandle
                /\ brPc' = "ttsAssign"
                /\ UNCHANGED <<ttsLive, brDir>>
           [] out = "throw" ->
                /\ brPc' = "idle"
                /\ brDir' = ""
                /\ UNCHANGED <<ttsLive, brTemp>>
    /\ UNCHANGED <<g_tts_wrapper, tts_initialized, tts_modelDir, tts_tts,
                   g_tts_skip_next_release>>
    /\ UNCHANGED <<sttVars, cbVars, gsVars, archVars, libVars>>

\* The assignment of tts-wrapper.cpp 205 and lines 209-224, then tts-jni.cpp
\* 126-132: a successful initialize arms the guard.
TtsAssign ==
    /\ brPc = "ttsAssign"
    /\ IF brTemp = NullHandle
       THEN /\ tts_tts' = NoEngine
            /\ ttsLive' = ttsLive \ {tts_tts}
            /\ UNCHANGED <<tts_initialized, tts_modelDir, g_tts_skip_next_release>>
       ELSE /\ tts_tts' = brTemp
            /\ ttsLive' = ttsLive \ {tts_tts}
            /\ tts_modelDir' = brDir
            /\ tts_initialized' = TRUE
            /\ g_tts_skip_next_release' = TRUE
    /\ brPc' = "idle"
    /\ brDir' = ""
    /\ brTemp' = NoEngine
    /\ UNCHANGED <<g_tts_wrapper, sttVars, cbVars, gsVars, archVars, libVars>>

\* Variant: nativeTtsRelease that clears the guard but releases all the same.
NativeTtsReleaseNoSkip ==
    /\ brPc = "idle"
    /\ g_tts_skip_next_release' = FALSE
    /\ IF g_tts_wrapper # "nullptr"
       THEN TtsWrapperRelease
       ELSE UNCHANGED <<tts_tts, ttsLive, activeStreamCallbacks, cbAlive,
                        tts_initialized, tts_modelDir>>
    /\ UNCHANGED g_tts_wrapper
    /\ UNCHANGED <<brVars, sttVars, gsVars, archVars, libVars>>

\* nativeTtsRelease, tts-jni.cpp 842-865: an armed guard is cleared and the
\* call returns; otherwise the wrapper releases its engine.  g_tts_wrapper is
\* never reset.
NativeTtsRelease ==
    /\ brPc = "idle"
    /\ IF g_tts_skip_next_release
       THEN /\ g_tts_skip_next_release' = FALSE
            /\ UNCHANGED <<g_tts_wrapper, tts_initialized, tts_modelDir, tts_tts, ttsLive,
                           cbVars>>
       ELSE /\ IF g_tts_wrapper # "nullptr"
               THEN TtsWrapperRelease
               ELSE UNCHANGED <<tts_tts, ttsLive, activeStreamCallbacks, cbAlive,
                                tts_initialized, tts_modelDir>>
            /\ UNCHANGED <<g_tts_skip_next_release, g_tts_wrapper>>
    /\ UNCHANGED <<brVars, sttVars, gsVars, archVars, libVars>>

-----------------------------------------------------------------------------
(* The bridge thread on the two wrappers *)

Init == ArchiveStart(FALSE) /\ WrapStart /\ LibStart

Next ==
    \/ SttInitBegin
    \/ SttCreate
    \/ SttAssign
    \/ NativeSttRelease
    \/ TtsInitBegin
    \/ TtsCreate
    \/ TtsAssign
    \/ NativeTtsRelease

Spec == Init /\ [][Next]_vars

-----------------------------------------------------------------------------
(* TTS streaming: nativeTtsGenerateStream, TtsWrapper::generateStream,
   nativeTtsCancelStream *)

\* Bound on g_tts_active_stream_id
MaxStreamId == 2

\* Bound on the chunks the engine delivers during one Generate
MaxChunks == 2

GsFrame(t) == UNCHANGED <<sttVars, brVars, archVars, libVars>>

\* The call on thread t returns and its cbPtr goes out of scope: the map
\* without t's object by name, and the objects alive after that.
Retire(map, t) == [k \in DOMAIN map |-> IF map[k] = Cb(t) THEN StaleCb ELSE map[k]]
AliveAfterReturn(t) ==
    LET map == Retire(activeStreamCallbacks, t)
        kept == IF Cb(t) \in cbAlive /\ (\E k \in DOMAIN map : activeStreamCallbacks[k] = Cb(t))
                THEN cbAlive \cup {StaleCb}
                ELSE cbAlive
    IN kept \cap CbRefs(map, [gsCbPtr EXCEPT ![t] = NoCb])

\* The call returns: its locals streamId and finalSent are gone.
GsLocalsGone(t) ==
    /\ gsStreamId' = [gsStreamId EXCEPT ![t] = 0]
    /\ gsFinalSent' = [gsFinalSent EXCEPT ![t] = FALSE]
    /\ gsCancelled' = [gsCancelled EXCEPT ![t] = FALSE]
    /\ gsDelivered' = [gsDelivered EXCEPT ![t] = <<>>]

\* A call goes to the first idle thread of the pool.
\* tts-jni.cpp 645-667: not initialized (or a null string) returns false;
\* otherwise g_tts_stream_cancelled.store(false); FindClass may still fail.
GsBegin(t) ==
    /\ gsPc[t] = "idle"
    /\ \A u \in StreamThreads : u < t => gsPc[u] # "idle"
    /\ \E strOk \in BOOLEAN, classOk \in BOOLEAN :
         IF g_tts_wrapper = "nullptr" \/ ~TtsIsInitialized \/ ~strOk
         THEN UNCHANGED <<g_tts_stream_cancelled, gsPc>>
         ELSE /\ g_tts_stream_cancelled' = FALSE
              /\ IF classOk
                 THEN gsPc' = [gsPc EXCEPT ![t] = "fetchAdd"]
                 ELSE UNCHANGED gsPc
    /\ UNCHANGED <<g_tts_active_stream_id, gsStreamId, gsCbPtr, gsArg,
                   gsFinalSent, gsCancelled, gsDelivered>>
    /\ UNCHANGED <<ttsVars, cbVars>>
    /\ GsFrame(t)

\* tts-jni.cpp 698-699: finalSent, and streamId = fetch_add(1) + 1
GsFetchAdd(t) ==
    /\ gsPc[t] = "fetchAdd"
    /\ g_tts_active_stream_id < MaxStreamId
    /\ gsStreamId' = [gsStreamId EXCEPT ![t] = g_tts_active_stream_id + 1]
    /\ g_tts_active_stream_id' = g_tts_active_stream_id + 1
    /\ gsFinalSent' = [gsFinalSent EXCEPT ![t] = FALSE]
    /\ gsPc' = [gsPc EXCEPT ![t] = "store"]
    /\ UNCHANGED <<g_tts_stream_cancelled, gsCbPtr, gsArg, gsCancelled, gsDelivered>>
    /\ UNCHANGED <<ttsVars, cbVars>>
    /\ GsFrame(t)

\* tts-jni.cpp 700: g_tts_active_stream_id.store(streamId)
GsStore(t) ==
    /\ gsPc[t] = "store"
    /\ g_tts_active_stream_id' = gsStreamId[t]
    /\ gsPc' = [gsPc EXCEPT ![t] = "register"]
    /\ UNCHANGED <<g_tts_stream_cancelled, gsStreamId, gsCbPtr, gsArg,
                   gsFinalSent, gsCancelled, gsDelivered>>
    /\ UNCHANGED <<ttsVars, cbVars>>
    /\ GsFrame(t)

\* Variant: generateStream whose callback is owned by the map alone, cbPtr
\* being moved into the map while the engine keeps the raw pointer.
GsRegisterMoved(t) ==
    /\ gsPc[t] = "register"
    /\ TtsIsInitialized
    /\ LET cb == Cb(t)
           map == Emplace(activeStreamCallbacks, gsStreamId[t], cb)
       IN /\ activeStreamCallbacks' = map
          /\ gsCbPtr' = [gsCbPtr EXCEPT ![t] = NoCb]
          /\ cbAlive' = (cbAlive \cup {cb}) \cap CbRefs(map, gsCbPtr')
          /\ gsArg' = [gsArg EXCEPT ![t] = cb]
          /\ gsPc' = [gsPc EXCEPT ![t] = "gen"]
    /\ UNCHANGED <<g_tts_stream_cancelled, g_tts_active_stream_id, gsStreamId,
                   gsFinalSent, gsCancelled, gsDelivered>>
    /\ UNCHANGED ttsVars
    /\ GsFrame(t)

\* TtsWrapper::generateStream, tts-wrapper.cpp 324-364: not initialized or
\* an empty text returns false; otherwise cbPtr = make_shared(callback), the
\* map gets a copy under the stream id (emplace keeps an entry that is
\* already there), and Generate starts with the raw pointer cbPtr.get().
GsRegister(t) ==
    /\ gsPc[t] = "register"
    /\ \E textOk \in BOOLEAN :
         IF ~TtsIsInitialized \/ ~textOk
         THEN /\ gsPc' = [gsPc EXCEPT ![t] = "failed"]
              /\ UNCHANGED <<cbVars, gsCbPtr, gsArg>>
         ELSE LET cb == Cb(t)
              IN /\ cbAlive' = cbAlive \cup {cb}
                 /\ gsCbPtr' = [gsCbPtr EXCEPT ![t] = cb]
                 /\ activeStreamCallbacks' =
                        Emplace(activeStreamCallbacks, gsStreamId[t], cb)
                 /\ gsArg' = [gsArg EXCEPT ![t] = cb]
                        /\ gsPc' = [gsPc EXCEPT ![t] = "gen"]
    /\ UNCHANGED <<g_tts_stream_cancelled, g_tts_active_stream_id, gsStreamId,
                   gsFinalSent, gsCancelled, gsDelivered>>
    /\ UNCHANGED ttsVars
    /\ GsFrame(t)

\* One invocation of the sample callback by the engine, tts-jni.cpp 706-751:
\* with the cancelled flag set (or when the thread cannot be attached or the
\* array not allocated) it returns 0 and the engine stops; otherwise the
\* chunk is delivered to the host, the first final chunk calls endStream,
\* and it returns 1.
GsChunk(t) ==
    /\ gsPc[t] = "gen"
    /\ \E envOk \in BOOLEAN, isFinal \in BOOLEAN :
         IF g_tts_stream_cancelled \/ ~envOk
         THEN /\ gsPc' = [gsPc EXCEPT ![t] = "genStop"]
              /\ UNCHANGED <<cbVars, gsFinalSent, gsDelivered>>
         ELSE /\ Len(gsDelivered[t]) < MaxChunks
              /\ gsDelivered' = [gsDelivered EXCEPT ![t] = Append(@, isFinal)]
              /\ IF isFinal /\ ~gsFinalSent[t]
                 THEN /\ gsFinalSent' = [gsFinalSent EXCEPT ![t] = TRUE]
                      /\ IF g_tts_wrapper # "nullptr" /\ gsStreamId[t] # 0
                         THEN LET map == Erase(activeStreamCallbacks, gsStreamId[t])
                              IN /\ activeStreamCallbacks' = map
                                 /\ cbAlive' = cbAlive \cap CbRefs(map, gsCbPtr)
                         ELSE UNCHANGED cbVars
                 ELSE UNCHANGED <<cbVars, gsFinalSent>>
              /\ UNCHANGED gsPc
    /\ UNCHANGED <<g_tts_stream_cancelled, g_tts_active_stream_id, gsStreamId, gsCbPtr,
                   gsArg, gsCancelled>>
    /\ UNCHANGED ttsVars
    /\ GsFrame(t)

\* Generate returns (tts-wrapper.cpp 358-366): cbPtr goes out of scope,
\* generateStream returns true and nativeTtsGenerateStream JNI_TRUE (780-783).
GsGenReturn(t) ==
    /\ gsPc[t] \in {"gen", "genStop"}
    /\ gsCbPtr' = [gsCbPtr EXCEPT ![t] = NoCb]
    /\ activeStreamCallbacks' = Retire(activeStreamCallbacks, t)
    /\ cbAlive' = AliveAfterReturn(t)
    /\ gsArg' = [gsArg EXCEPT ![t] = NoCb]
    /\ gsPc' = [gsPc EXCEPT ![t] = "idle"]
    /\ GsLocalsGone(t)
    /\ UNCHANGED <<g_tts_stream_cancelled, g_tts_active_stream_id>>
    /\ UNCHANGED ttsVars
    /\ GsFrame(t)

\* Generate throws (tts-wrapper.cpp 367-373): cbPtr goes out of scope and
\* generateStream returns false.
GsGenThrow(t) ==
    /\ gsPc[t] \in {"gen", "genStop"}
    /\ gsCbPtr' = [gsCbPtr EXCEPT ![t] = NoCb]
    /\ activeStreamCallbacks' = Retire(activeStreamCallbacks, t)
    /\ cbAlive' = AliveAfterReturn(t)
    /\ gsArg' = [gsArg EXCEPT ![t] = NoCb]
    /\ gsPc' = [gsPc EXCEPT ![t] = "failed"]
    /\ UNCHANGED <<g_tts_stream_cancelled, g_tts_active_stream_id, gsStreamId,
                   gsFinalSent, gsCancelled, gsDelivered>>
    /\ UNCHANGED ttsVars
    /\ GsFrame(t)

\* tts-jni.cpp 756-783 with ok == false: the error callback unless
\* cancelled, endStream(streamId), return JNI_FALSE.
GsFail(t) ==
    /\ gsPc[t] = "failed"
    /\ IF g_tts_wrapper # "nullptr" /\ gsStreamId[t] # 0
       THEN LET map == Erase(activeStreamCallbacks, gsStreamId[t])
            IN /\ activeStreamCallbacks' = map
               /\ cbAlive' = cbAlive \cap CbRefs(map, gsCbPtr)
       ELSE UNCHANGED cbVars
    /\ gsPc' = [gsPc EXCEPT ![t] = "idle"]
    /\ GsLocalsGone(t)
    /\ UNCHANGED <<g_tts_stream_cancelled, g_tts_active_stream_id, gsCbPtr,
                   gsArg>>
    /\ UNCHANGED ttsVars
    /\ GsFrame(t)

\* nativeTtsCancelStream, tts-jni.cpp 797-800: the flag is set and the
\* wrapper erases the callback of the active stream id (0 erases nothing).
CancelStream ==
    /\ brPc = "idle"
    /\ g_tts_stream_cancelled' = TRUE
    /\ IF g_tts_wrapper # "nullptr" /\ g_tts_active_stream_id # 0
       THEN LET map == Erase(activeStreamCallbacks, g_tts_active_stream_id)
            IN /\ activeStreamCallbacks' = map
               /\ cbAlive' = cbAlive \cap CbRefs(map, gsCbPtr)
       ELSE UNCHANGED cbVars
    /\ gsCancelled' = [t \in StreamThreads |-> gsCancelled[t] \/ gsPc[t] = "gen"]
    /\ brPc' = "cancelReset"
    /\ UNCHANGED <<g_tts_active_stream_id, gsPc, gsStreamId, gsCbPtr, gsArg,
                   gsFinalSent, gsDelivered>>
    /\ UNCHANGED <<brDir, brTemp, ttsVars, sttVars, archVars, libVars>>

\* nativeTtsCancelStream, tts-jni.cpp 801: g_tts_active_stream_id.store(0)
CancelReset ==
    /\ brPc = "cancelReset"
    /\ g_tts_active_stream_id' = 0
    /\ brPc' = "idle"
    /\ UNCHANGED <<g_tts_stream_cancelled, gsPc, gsStreamId, gsCbPtr, gsArg,
                   gsFinalSent, gsCancelled, gsDelivered>>
    /\ UNCHANGED <<brDir, brTemp, ttsVars, cbVars, sttVars, archVars, libVars>>

InitStream == ArchiveStart(FALSE) /\ WrapStart /\ LibStart

NextStream ==
    \/ TtsInitBeginStream
    \/ TtsCreate
    \/ TtsAssign
    \/ NativeTtsRelease
    \/ CancelStream
    \/ CancelReset
    \/ \E t \in StreamThreads : GsBegin(t)
    \/ \E t \in StreamThreads : GsFetchAdd(t)
    \/ \E t \in StreamThreads : GsStore(t)
    \/ \E t \in StreamThreads : GsRegister(t)
    \/ \E t \in StreamThreads : GsChunk(t)
    \/ \E t \in StreamThreads : GsGenReturn(t)
    \/ \E t \in StreamThreads : GsGenThrow(t)
    \/ \E t \in StreamThreads : GsFail(t)

SpecStream == InitStream /\ [][NextStream]_vars

-----------------------------------------------------------------------------
(* The stream mutex: the TtsWrapper methods that touch the callback map,    *)
(* step by step, called by the threads of the host's pool.                  *)

\* The state after one successful nativeTtsInitialize with directory "m1".
LoadedEngine == [id |-> 1, dir |-> "m1"]
InitMutex ==
    /\ ArchiveStart(FALSE)
    /\ MxStart
    /\ PureStart
    /\ g_stt_wrapper = "nullptr"
    /\ stt_initialized = FALSE
    /\ stt_modelDir = ""
    /\ stt_recognizer = NoEngine
    /\ sttLive = {}
    /\ sttCalls = <<>>
    /\ g_tts_wrapper = "TtsWrapper"
    /\ tts_initialized = TRUE
    /\ tts_modelDir = "m1"
    /\ tts_tts = LoadedEngine
    /\ ttsLive = {LoadedEngine}
    /\ g_tts_skip_next_release = TRUE
    /\ brPc = "idle"
    /\ brDir = ""
    /\ brTemp = NoEngine
    /\ g_tts_stream_cancelled = FALSE
    /\ g_tts_active_stream_id = 0
    /\ activeStreamCallbacks = NoCallbacks
    /\ cbAlive = {}
    /\ gsPc = [t \in StreamThreads |-> "idle"]
    /\ gsStreamId = [t \in StreamThreads |-> 0]
    /\ gsCbPtr = [t \in StreamThreads |-> NoCb]
    /\ gsArg = [t \in StreamThreads |-> NoCb]
    /\ gsFinalSent = [t \in StreamThreads |-> FALSE]
    /\ gsCancelled = [t \in StreamThreads |-> FALSE]
    /\ gsDelivered = [t \in StreamThreads |-> <<>>]

\* What the methods below leave alone.
MxFrame == UNCHANGED <<archVars, pureVars, sttVars, brVars, g_tts_wrapper, g_tts_skip_next_release,
                       g_tts_stream_cancelled, g_tts_active_stream_id, gsPc, gsStreamId,
                       gsArg, gsFinalSent, gsCancelled, gsDelivered>>

\* The thread enters a method that will take the mutex.
MxEnter(t, op, id) ==
    /\ mxPc' = [mxPc EXCEPT ![t] = "lock"]
    /\ mxOp' = [mxOp EXCEPT ![t] = op]
    /\ mxId' = [mxId EXCEPT ![t] = id]

\* TtsWrapper::generateStream, tts-wrapper.cpp 324-347: not initialized or an
\* empty text returns false; a null callback goes to Generate without
\* touching the map; otherwise cbPtr = make_shared(callback).
MxGenerateStream(t) ==
    /\ mxPc[t] = "idle"
    /\ \E id \in 1..MaxStreamId, textOk \in BOOLEAN, hasCb \in BOOLEAN :
         IF ~TtsIsInitialized \/ ~textOk \/ ~hasCb
         THEN UNCHANGED <<mxPc, mxOp, mxId, gsCbPtr, cbAlive>>
         ELSE /\ MxEnter(t, "generateStream", id)
              /\ gsCbPtr' = [gsCbPtr EXCEPT ![t] = Cb(t)]
              /\ cbAlive' = cbAlive \cup {Cb(t)}
    /\ UNCHANGED <<streamMutex, activeStreamCallbacks, tts_initialized, tts_modelDir,
                   tts_tts, ttsLive>>
    /\ MxFrame

\* Lines 376-377 and 382-383: stream id 0 returns before the lock.
MxEraseCall(t, op) ==
    /\ mxPc[t] = "idle"
    /\ \E id \in 0..MaxStreamId :
         IF id = 0
         THEN UNCHANGED <<mxPc, mxOp, mxId>>
         ELSE MxEnter(t, op, id)
    /\ UNCHANGED <<streamMutex, cbVars, gsCbPtr, tts_initialized, tts_modelDir, tts_tts,
                   ttsLive>>
    /\ MxFrame

\* TtsWrapper::cancelStream, tts-wrapper.cpp 376-380
MxCancelStream(t) == MxEraseCall(t, "cancelStream")

\* TtsWrapper::endStream, tts-wrapper.cpp 382-386
MxEndStream(t) == MxEraseCall(t, "endStream")

\* TtsWrapper::release, tts-wrapper.cpp 418-426: nothing to do when neither
\* initialized nor holding an engine; otherwise tts.reset().
MxRelease(t) ==
    /\ mxPc[t] = "idle"
    /\ IF tts_initialized \/ tts_tts # NoEngine
       THEN /\ MxEnter(t, "release", 0)
            /\ tts_tts' = NoEngine
            /\ ttsLive' = ttsLive \ {tts_tts}
       ELSE UNCHANGED <<mxPc, mxOp, mxId, tts_tts, ttsLive>>
    /\ UNCHANGED <<streamMutex, cbVars, gsCbPtr, tts_initialized, tts_modelDir>>
    /\ MxFrame

\* Variant: a lock_guard that does not wait for the mutex.
MxLockNoWait(t) ==
    /\ mxPc[t] = "lock"
    /\ mxPc' = [mxPc EXCEPT ![t] = "mutate"]
    /\ UNCHANGED <<streamMutex, mxOp, mxId, cbVars, gsCbPtr, tts_initialized, tts_modelDir,
                   tts_tts, ttsLive>>
    /\ MxFrame

\* std::lock_guard<std::mutex> lock(pImpl->streamMutex), lines 348, 378, 384
\* and 429: the thread waits until the mutex is free and takes it.
MxLock(t) ==
    /\ mxPc[t] = "lock"
    /\ streamMutex = 0
    /\ streamMutex' = t
    /\ mxPc' = [mxPc EXCEPT ![t] = "mutate"]
    /\ UNCHANGED <<mxOp, mxId, cbVars, gsCbPtr, tts_initialized, tts_modelDir, tts_tts,
                   ttsLive>>
    /\ MxFrame

\* The container operation of lines 349, 379, 385 and 430 starts ...
MxMutateBegin(t) ==
    /\ mxPc[t] = "mutate"
    /\ mxPc' = [mxPc EXCEPT ![t] = "mutating"]
    /\ UNCHANGED <<streamMutex, mxOp, mxId, cbVars, gsCbPtr, tts_initialized, tts_modelDir,
                   tts_tts, ttsLive>>
    /\ MxFrame

\* ... and completes: emplace(streamId, cbPtr), erase(streamId) or clear().
MxMutateEnd(t) ==
    /\ mxPc[t] = "mutating"
    /\ LET map == CASE mxOp[t] = "generateStream" ->
                         Emplace(activeStreamCallbacks, mxId[t], gsCbPtr[t])
                    [] mxOp[t] \in {"cancelStream", "endStream"} ->
                         Erase(activeStreamCallbacks, mxId[t])
                    [] OTHER -> NoCallbacks
       IN /\ activeStreamCallbacks' = map
          /\ cbAlive' = cbAlive \cap CbRefs(map, gsCbPtr)
    /\ mxPc' = [mxPc EXCEPT ![t] = "unlock"]
    /\ UNCHANGED <<streamMutex, mxOp, mxId, gsCbPtr, tts_initialized, tts_modelDir,
                   tts_tts, ttsLive>>
    /\ MxFrame

\* The lock_guard goes out of scope (lines 350, 380, 386, 431).
MxUnlock(t) ==
    /\ mxPc[t] = "unlock"
    /\ streamMutex' = 0
    /\ mxPc' = [mxPc EXCEPT ![t] = "after"]
    /\ UNCHANGED <<mxOp, mxId, cbVars, gsCbPtr, tts_initialized, tts_modelDir, tts_tts,
                   ttsLive>>
    /\ MxFrame

\* The rest of the method: generateStream runs Generate and returns, its
\* cbPtr going out of scope (352-373); release clears initialized and
\* modelDir (432-433); cancelStream and endStream return.
MxReturn(t) ==
    /\ mxPc[t] = "after"
    /\ IF mxOp[t] = "generateStream"
       THEN /\ gsCbPtr' = [gsCbPtr EXCEPT ![t] = NoCb]
            /\ activeStreamCallbacks' = Retire(activeStreamCallbacks, t)
            /\ cbAlive' = AliveAfterReturn(t)
       ELSE UNCHANGED <<gsCbPtr, cbVars>>
    /\ IF mxOp[t] = "release"
       THEN tts_initialized' = FALSE /\ tts_modelDir' = ""
       ELSE UNCHANGED <<tts_initialized, tts_modelDir>>
    /\ mxPc' = [mxPc EXCEPT ![t] = "idle"]
    /\ mxOp' = [mxOp EXCEPT ![t] = "none"]
    /\ mxId' = [mxId EXCEPT ![t] = 0]
    /\ UNCHANGED <<streamMutex, tts_tts, ttsLive>>
    /\ MxFrame

\* A whole successful TtsWrapper::initialize (tts-wrapper.cpp 55-224) on a
\* wrapper that holds nothing: it calls no release and leaves the map alone.
MxInitialize ==
    /\ ~tts_initialized
    /\ tts_tts = NoEngine
    /\ tts_tts' = LoadedEngine
    /\ ttsLive' = ttsLive \cup {LoadedEngine}
    /\ tts_modelDir' = "m1"
    /\ tts_initialized' = TRUE
    /\ UNCHANGED <<mxVars, cbVars, gsCbPtr>>
    /\ MxFrame

NextMutex ==
    \/ MxInitialize
    \/ \E t \in StreamThreads : MxGenerateStream(t)
    \/ \E t \in StreamThreads : MxCancelStream(t)
    \/ \E t \in StreamThreads : MxEndStream(t)
    \/ \E t \in StreamThreads : MxRelease(t)
    \/ \E t \in StreamThreads : MxLock(t)
    \/ \E t \in StreamThreads : MxMutateBegin(t)
    \/ \E t \in StreamThreads : MxMutateEnd(t)
    \/ \E t \in StreamThreads : MxUnlock(t)
    \/ \E t \in StreamThreads : MxReturn(t)

SpecMutex == InitMutex /\ [][NextMutex]_vars

-----------------------------------------------------------------------------
(* SHA-256: a byte string fed to sha256_update in consecutive chunks *)

\* Bound on the length of the byte strings
MaxMsgLen == 130

\* The byte strings: the byte at position i is 128 + step * i modulo 256, so
\* step 0 gives a string of 0x80 bytes.
ByteSteps == {0, 41}
Message(len, step) == [i \in 1..len |-> (128 + step * i) % 256]

\* The lengths of the chunks a caller may pass next, with rest bytes to go:
\* empty, short, around the padding limit, around one and two blocks, all.
ChunkLengths(rest) ==
    {n \in {0, 1, 2, 55, 56, 57, 63, 64, 65, 127, 128, 129} : n <= rest} \cup {rest}

ShaFrame == UNCHANGED <<archVars, wrapVars, mxVars, detVars, cvVars>>

\* sha256_init on a fresh context, for one of the byte strings
ShaBegin ==
    /\ shaPc = "idle"
    /\ \E len \in 0..MaxMsgLen, step \in ByteSteps : shaMsg' = Message(len, step)
    /\ sha_ctx' = Sha256Init
    /\ shaPos' = 0
    /\ shaPc' = "feeding"
    /\ UNCHANGED shaOut
    /\ ShaFrame

\* One sha256_update call with the next chunk
ShaUpdate ==
    /\ shaPc = "feeding"
    /\ \E n \in ChunkLengths(Len(shaMsg) - shaPos) :
         /\ sha_ctx' = Sha256Update(sha_ctx, SubSeq(shaMsg, shaPos + 1, shaPos + n))
         /\ shaPos' = shaPos + n
    /\ UNCHANGED <<shaPc, shaMsg, shaOut>>
    /\ ShaFrame

\* sha256_final once every byte was passed
ShaFinal ==
    /\ shaPc = "feeding"
    /\ shaPos = Len(shaMsg)
    /\ shaOut' = Sha256Final(sha_ctx)
    /\ shaPc' = "done"
    /\ UNCHANGED <<shaMsg, shaPos, sha_ctx>>
    /\ ShaFrame

NextSha ==
    \/ ShaBegin
    \/ ShaUpdate
    \/ ShaFinal

SpecSha == Init /\ [][NextSha]_vars

-----------------------------------------------------------------------------
(* Model detection: one call of a detector on a model directory *)

\* At most MaxFiles files in a model directory, of 1..MaxSize bytes
MaxFiles == 5
MaxSize == 3

\* The content of a file as IsLikelyTokensFile reads it: labels.txt holds two
\* lines "token index", every other file one line that is not of that form.
LinesOf(name) ==
    IF name = Str.labels_txt THEN [total |-> 2, matched |-> 2]
    ELSE [total |-> 1, matched |-> 0]

Entry(name, size) ==
    [name |-> name, nameLower |-> ToLower(name), size |-> size, lines |-> LinesOf(name)]

\* A quantised file is smaller than the file it was made from.
SizeOf(name) == IF ContainsToken(name, Str.int8) THEN 1 ELSE 2

RECURSIVE ListFiles(_, _, _)
\* The listing of a directory that holds the files chosen among names, in the
\* order of names, from the i-th name on
ListFiles(names, chosen, i) ==
    IF i > Len(names) THEN <<>>
    ELSE IF names[i] \in chosen
    THEN <<Entry(names[i], SizeOf(names[i]))>> \o ListFiles(names, chosen, i + 1)
    ELSE ListFiles(names, chosen, i + 1)

Listing(names, chosen) == ListFiles(names, chosen, 1)

Chosen(names) ==
    {c \in SUBSET {names[i] : i \in 1..Len(names)} : Cardinality(c) <= MaxFiles}

SttNames ==
    <<Str.encoder_onnx, Str.decoder_onnx, Str.joiner_onnx, Str.model_onnx,
      Str.model_int8_onnx, Str.encoder_adaptor_onnx, Str.llm_onnx, Str.embedding_onnx,
      Str.vocab_json, Str.tokens_txt, Str.labels_txt>>
SttDirNames == {Str.dir_plain, Str.dir_funasr}
SttModelTypes ==
    {NoModelType, ModelType("whisper"), ModelType("funasr_nano"),
     ModelType("paraformer"), ModelType("other")}
Preferences == {NoPreference, Prefer(TRUE), Prefer(FALSE)}

TtsNames ==
    <<Str.model_onnx, Str.tokens_txt, Str.voices_bin, Str.lexicon_txt,
      Str.encoder_onnx, Str.decoder_onnx>>
TtsDirNames == {Str.dir_plain, Str.dir_Kokoro, Str.dir_kitten}
TtsModelTypes == {"auto", "vits", "kokoro", "other"}

\* Listings of the two combined model files, in either order, of any sizes
FindListings ==
    LET both == {Str.model_onnx, Str.model_int8_onnx}
    IN {<<Entry(a, s)>> : a \in both, s \in 1..MaxSize}
       \cup {<<Entry(p[1], s), Entry(p[2], t)>> :
                p \in {q \in both \X both : q[1] # q[2]},
                s \in 1..MaxSize, t \in 1..MaxSize}
FindTokens == {Str.model, Str.encoder}

DetFrame == UNCHANGED <<archVars, wrapVars, mxVars, shaVars, cvVars>>

\* nativeDetectSttModel / SttWrapper::initialize are about to call the detector
DetBeginStt ==
    /\ detPc = "idle"
    /\ \E name \in SttDirNames, chosen \in Chosen(SttNames),
          preferInt8 \in Preferences, modelType \in SttModelTypes :
           detIn' = [dir |-> [name |-> name, files |-> Listing(SttNames, chosen),
                              dirs |-> {}],
                     preferInt8 |-> preferInt8, modelType |-> modelType, token |-> NoPath]
    /\ detPc' = "stt"
    /\ UNCHANGED detOut
    /\ DetFrame

DetBeginTts ==
    /\ detPc = "idle"
    /\ \E name \in TtsDirNames, chosen \in Chosen(TtsNames),
          dirs \in {{}, {Str.espeak_ng_data}}, modelType \in TtsModelTypes :
           detIn' = [dir |-> [name |-> name, files |-> Listing(TtsNames, chosen),
                              dirs |-> dirs],
                     preferInt8 |-> NoPreference, modelType |-> ModelType(modelType),
                     token |-> NoPath]
    /\ detPc' = "tts"
    /\ UNCHANGED detOut
    /\ DetFrame

DetBeginFind ==
    /\ detPc = "idle"
    /\ \E files \in FindListings, token \in FindTokens, preferInt8 \in Preferences :
           detIn' = [dir |-> [name |-> Str.dir_plain, files |-> files, dirs |-> {}],
                     preferInt8 |-> preferInt8, modelType |-> NoModelType,
                     token |-> token]
    /\ detPc' = "find"
    /\ UNCHANGED detOut
    /\ DetFrame

DetectSttModelCall ==
    /\ detPc = "stt"
    /\ detOut' = [fn |-> "DetectSttModel",
                  result |-> DetectSttModel(detIn.dir, detIn.preferInt8, detIn.modelType)]
    /\ detPc' = "done"
    /\ UNCHANGED detIn
    /\ DetFrame

DetectSttModelFixedNamesCall ==
    /\ detPc = "stt"
    /\ detOut' = [fn |-> "DetectSttModelFixedNames",
                  result |-> DetectSttModelFixedNames(detIn.dir, detIn.preferInt8,
                                                      detIn.modelType)]
    /\ detPc' = "done"
    /\ UNCHANGED detIn
    /\ DetFrame

DetectTtsModelCall ==
    /\ detPc = "tts"
    /\ detOut' = [fn |-> "DetectTtsModel",
                  result |-> DetectTtsModel(detIn.dir, detIn.modelType.value)]
    /\ detPc' = "done"
    /\ UNCHANGED detIn
    /\ DetFrame

FindOnnxByTokenCall ==
    /\ detPc = "find"
    /\ detOut' = [fn |-> "FindOnnxByToken",
                  result |-> FindOnnxByToken(detIn.dir.files, detIn.token, detIn.preferInt8)]
    /\ detPc' = "done"
    /\ UNCHANGED detIn
    /\ DetFrame

NextDetect ==
    \/ DetBeginStt
    \/ DetBeginTts
    \/ DetBeginFind
    \/ DetectSttModelCall
    \/ DetectSttModelFixedNamesCall
    \/ DetectTtsModelCall
    \/ FindOnnxByTokenCall

SpecDetect == Init /\ [][NextDetect]_vars

-----------------------------------------------------------------------------
(* Automatic detection: SttWrapper::initialize on a model directory with no  *)
(* model type or "auto", up to the construction of the recognizer            *)

MaxAutoFiles == 4

AutoNames ==
    <<Str.encoder_onnx, Str.decoder_onnx, Str.joiner_onnx, Str.model_onnx,
      Str.encoder_adaptor_onnx, Str.llm_onnx, Str.embedding_onnx, Str.vocab_json,
      Str.preprocess_onnx, Str.encode_int8_onnx, Str.uncached_decode_int8_onnx,
      Str.cached_decode_int8_onnx, Str.tokens_txt>>

\* Directory names with the hints the detector looks for, and one without
AutoDirNames ==
    {Str.dir_plain, Str.dir_nemo, Str.wenet, Str.sensevoice, Str.dir_funasr,
     Str.moonshine, Str.dolphin, Str.fire_red, Str.canary, Str.omnilingual, Str.medasr,
     Str.telespeech}

AutoModelTypes == {NoModelType, ModelType("auto")}

AutoChosen ==
    {c \in SUBSET {AutoNames[i] : i \in 1..Len(AutoNames)} : Cardinality(c) <= MaxAutoFiles}

\* The directories tried under the names in dirNames
AutoDirs(dirNames) ==
    {[name |-> name, files |-> Listing(AutoNames, chosen), dirs |-> {}] :
        name \in dirNames, chosen \in AutoChosen}

\* SttWrapper::initialize is called on a directory
DetBeginAuto ==
    /\ detPc = "idle"
    /\ \E dir \in AutoDirs(AutoDirNames), modelType \in AutoModelTypes :
           detIn' = [dir |-> dir, preferInt8 |-> NoPreference, modelType |-> modelType,
                     token |-> NoPath]
    /\ detPc' = "stt"
    /\ UNCHANGED detOut
    /\ DetFrame

\* stt-wrapper.cpp lines 81-127: the detection result is tested and the switch
\* over the selected kind fills the configuration
SttConfigureCall ==
    /\ detPc = "done"
    /\ detOut.fn = "DetectSttModel"
    /\ detOut' = [fn |-> "SttWrapper::initialize",
                  result |-> SttConfigure(detOut.result)]
    /\ detPc' = "configured"
    /\ UNCHANGED detIn
    /\ DetFrame

NextAuto ==
    \/ DetBeginAuto
    \/ DetectSttModelCall
    \/ SttConfigureCall

SpecAuto == Init /\ [][NextAuto]_vars

-----------------------------------------------------------------------------
(* Audio conversion: one call of nativeConvertAudioToWav16k or               *)
(* nativeConvertAudioToFormat, call by call *)

FormatHints == {"wav", "mp3", "flac", "ogg"}

CvFrame == UNCHANGED <<archVars, wrapVars, mxVars, shaVars, detVars>>

CvBegin ==
    /\ cvPc = "idle"
    /\ \E fn \in {"convertToWav16kMono", "convertToFormat"}, nofile \in BOOLEAN,
          formatHint \in FormatHints :
           /\ fn = "convertToWav16kMono" => formatHint = "wav"
           /\ cvIn' = [fn |-> fn, formatHint |-> formatHint, nofile |-> nofile]
    /\ cvPc' = "running"
    /\ cvStep' = 1
    /\ UNCHANGED <<cvHeld, cvRet>>
    /\ CvFrame

\* The call the conversion is at
CvCall == StepsOf(cvIn.fn, cvIn.formatHint, cvIn.nofile)[cvStep]
CvLast == cvStep = Len(StepsOf(cvIn.fn, cvIn.formatHint, cvIn.nofile))

\* The call succeeds; after the last one the function returns ""
CvStepOk ==
    /\ cvPc = "running"
    /\ \E gone \in CvCall.settles : cvHeld' = (cvHeld \cup CvCall.acquires) \ gone
    /\ IF CvLast
       THEN cvPc' = "returned" /\ cvRet' = "" /\ UNCHANGED cvStep
       ELSE cvStep' = cvStep + 1 /\ UNCHANGED <<cvPc, cvRet>>
    /\ UNCHANGED cvIn
    /\ CvFrame

\* The call fails: the branch releases what it names and returns the error
CvStepFail ==
    /\ cvPc = "running"
    /\ \E error \in CvCall.errors : cvRet' = error
    /\ cvHeld' = cvHeld \ CvCall.releases
    /\ cvPc' = "returned"
    /\ UNCHANGED <<cvIn, cvStep>>
    /\ CvFrame

NextConvert ==
    \/ CvBegin
    \/ CvStepOk
    \/ CvStepFail

SpecConvert == Init /\ [][NextConvert]_vars

-----------------------------------------------------------------------------
(* The extraction specification *)

NextArchive ==
    \/ Cancel
    \/ ExtractBegin
    \/ ExtractPrepare
    \/ ReadHeader
    \/ PollHeader
    \/ CheckPath
    \/ WriteEntryHeader
    \/ ReadBlock
    \/ PollBlock
    \/ WriteBlock
    \/ ExtractFinish

InitArchive == (\E pre \in BOOLEAN : ArchiveStart(pre)) /\ WrapStart /\ LibStart

SpecArchive == InitArchive /\ [][NextArchive]_vars

\* The source file of a larger archive: up to MaxPieces pieces.
MaxPieces == 3
LargeSizes == 1..MaxPieces

\* nativeExtractTarBz2 on an archive of any of these sizes, whose entries
\* are regular files stored under a plain name
ExtractPrepareLarge == ExtractPrepareOf(LargeSizes)
ReadHeaderPlain == ReadHeaderOf({<<"a">>}, {"file"})

NextSource ==
    \/ Cancel
    \/ ExtractBegin
    \/ ExtractPrepareLarge
    \/ ReadHeaderPlain
    \/ PollHeader
    \/ CheckPath
    \/ WriteEntryHeader
    \/ ReadBlock
    \/ PollBlock
    \/ WriteBlock
    \/ ExtractFinish

SpecSource == InitArchive /\ [][NextSource]_vars

-----------------------------------------------------------------------------
(* Claims about the extraction *)

\* C1 as stated: a Cancel() before or during a call makes the call return
\* false with "Extraction cancelled" (calls that fail for another reason set
\* aside).
CE_C1_CancelBeforeOrDuring ==
    (exPc = "done" /\ cancelHist \in {"before", "during"}
        /\ exError \in {"", "Extraction cancelled"})
    => (~exOk /\ exError = "Extraction cancelled")

\* C1 as amended: when one of the two cancellation checks (after an OK header
\* read, after an OK data block read) runs with the flag set, the call returns
\* false with "Extraction cancelled" at once and writes nothing more; and the
\* call reports a cancellation only for a Cancel() made while it was running.
TH_C1_CancelObserved ==
    /\ [][((PollHeader \/ PollBlock) /\ cancel_requested_)
            => (exPc' = "done" /\ ~exOk' /\ exError' = "Extraction cancelled"
                /\ fs' = fs /\ written' = written)]_vars
    /\ [](exError = "Extraction cancelled" => cancelHist = "during")

\* C1: a cancellation observed in the data loop, after an entry was written.
W_C1_CancelledMidEntry ==
    /\ exPc = "done"
    /\ exError = "Extraction cancelled"
    /\ exBlocks > 0
    /\ written # {}

\* C2 as stated: no file and no link ever comes to exist outside the target
\* directory (none exists there before the call).
CE_C2_NoEscape ==
    \A loc \in fs.files \cup fs.links : IsPrefix(TargetPath, loc)

\* C9 as stated, for nativeExtractTarBz2: no C++ exception leaves the entry
\* point.
CE_C9_NoEscapedException ==
    jniEscaped = FALSE

-----------------------------------------------------------------------------
(* Claims about the wrappers *)

\* C3: the TTS guard is armed by the step that completes a successful
\* nativeTtsInitialize; a nativeTtsRelease that finds it armed clears it and
\* changes nothing else (the engine stays loaded and usable); a
\* nativeTtsRelease that finds it clear releases the engine; an armed guard
\* always comes with a usable engine; and nothing but these two calls
\* changes the guard (nativeTtsInitialize clears it on entry).
TH_C3_SkipNextRelease ==
    /\ [][(TtsAssign /\ brTemp # NullHandle) => g_tts_skip_next_release']_vars
    /\ [][(NativeTtsRelease /\ g_tts_skip_next_release)
            => (/\ ~g_tts_skip_next_release'
                /\ tts_tts' = tts_tts /\ ttsLive' = ttsLive
                /\ tts_initialized' = tts_initialized)]_vars
    /\ [][(NativeTtsRelease /\ ~g_tts_skip_next_release)
            => (tts_tts' = NoEngine /\ ttsLive' = {} /\ ~tts_initialized'
                /\ ~g_tts_skip_next_release')]_vars
    /\ [](g_tts_skip_next_release => (TtsIsInitialized /\ tts_tts \in ttsLive))
    /\ [][g_tts_skip_next_release' # g_tts_skip_next_release
            => (TtsInitBegin \/ TtsAssign \/ NativeTtsRelease)]_vars

\* C3: a successful initialize and then a release that was ignored (the only
\* way to have a loaded engine with the guard clear).
W_C3_ReleaseIgnored ==
    /\ brPc = "idle"
    /\ ~g_tts_skip_next_release
    /\ TtsIsInitialized
    /\ tts_tts \in ttsLive

\* C4: each wrapper owns at most one live engine object in every state, the
\* states inside initialize included, and no engine is alive when Create()
\* is about to construct the next one.
TH_C4_OneEngine ==
    /\ Cardinality(sttLive) <= 1
    /\ Cardinality(ttsLive) <= 1
    /\ brPc = "sttCreate" => sttLive = {}
    /\ brPc = "ttsCreate" => ttsLive = {}

\* C4: a re-initialisation has built its engine, after the call before it
\* had succeeded and left an engine loaded.
W_C4_Reinitialised ==
    /\ brPc = "sttAssign"
    /\ brTemp \in sttLive
    /\ sttCalls # <<>>
    /\ sttCalls[Len(sttCalls)] \in {InitCall("m1", TRUE), InitCall("m2", TRUE)}

\* Two successive initialize calls on the wrapper have completed.
TwoInits(calls) == Len(calls) = 2

\* Exactly one engine exists for the wrapper and it was built from dir.
OneEngineFrom(live, held, dir) == live = {held} /\ held.id # 0 /\ held.dir = dir

\* C5 as stated: after two successive initialize calls exactly one engine
\* exists, built from the model directory of the second call.
CE_C5_SecondCallEngine ==
    (brPc \notin {"sttCreate", "sttAssign"} /\ TwoInits(sttCalls))
        => OneEngineFrom(sttLive, stt_recognizer, sttCalls[2].dir)

\* C5 as amended: after two successive initialize calls on the STT wrapper,
\* if the second succeeded exactly one engine exists, built from the second
\* call's model directory, and if it failed no engine exists; and every TTS
\* initialize call ends the same way, whatever call came before it.
TH_C5_SecondCallEngine ==
    /\ []((brPc \notin {"sttCreate", "sttAssign"} /\ TwoInits(sttCalls))
            => IF sttCalls[2].ok
               THEN OneEngineFrom(sttLive, stt_recognizer, sttCalls[2].dir)
               ELSE sttLive = {} /\ stt_recognizer = NoEngine)
    /\ [][(TtsAssign /\ brTemp # NullHandle)
            => OneEngineFrom(ttsLive', tts_tts', brDir)]_vars
    /\ [][((TtsInitBegin \/ TtsCreate \/ TtsAssign) /\ brPc' = "idle"
               /\ ~(TtsAssign /\ brTemp # NullHandle))
            => (ttsLive' = {} /\ tts_tts' = NoEngine)]_vars

\* C5: two successful initialize calls with different directories.
W_C5_TwoDirectories ==
    /\ brPc = "idle"
    /\ sttCalls = <<InitCall("m1", TRUE), InitCall("m2", TRUE)>>
    /\ SttIsInitialized
    /\ stt_recognizer.dir = "m2"

\* C8 as stated: once constructed, neither global wrapper is ever destroyed.
CE_C8_WrapperNeverDestroyed ==
    [][/\ g_stt_wrapper # "nullptr" => g_stt_wrapper' = g_stt_wrapper
       /\ g_tts_wrapper # "nullptr" => g_tts_wrapper' = g_tts_wrapper]_vars

-----------------------------------------------------------------------------
(* Claims about TTS streaming *)

\* C6 as stated: once nativeTtsCancelStream has been called while a stream
\* was generating, every later invocation of that stream's callback returns
\* 0 (the engine stops) and delivers no chunk.
CE_C6_CancelledStaysSilent ==
    [][\A t \in StreamThreads :
          (gsCancelled[t] /\ GsChunk(t)) => gsPc'[t] = "genStop"]_vars

\* C7 as stated: the value of g_tts_active_stream_id never decreases.
CE_C7_Monotonic ==
    [][g_tts_active_stream_id' >= g_tts_active_stream_id]_vars

\* C10: while the engine's Generate runs for a stream, the callback object
\* whose raw pointer it was given is alive, whatever the map holds.
TH_C10_CallbackAlive ==
    \A t \in StreamThreads :
        gsPc[t] \in {"gen", "genStop"} => (gsArg[t] # NoCb /\ gsArg[t] \in cbAlive)

\* C10: Generate is running for a stream that was cancelled meanwhile, and
\* the map no longer holds its callback.
W_C10_RemovedWhileGenerating ==
    \E t \in StreamThreads :
        /\ gsPc[t] = "gen"
        /\ gsCancelled[t]
        /\ gsArg[t] \in cbAlive
        /\ \A k \in DOMAIN activeStreamCallbacks : activeStreamCallbacks[k] # gsArg[t]

-----------------------------------------------------------------------------
(* Claims about the stream mutex *)

\* C11: every insertion into and every erasure from the callback map is a
\* step of the thread that holds the stream mutex: a thread inside the
\* locked region of generateStream, cancelStream, endStream or release is the
\* holder, at most one thread is inside a map operation at any time, and the
\* keys of the map change in no other step.
TH_C11_MapUnderMutex ==
    /\ [](\A t \in StreamThreads :
            mxPc[t] \in {"mutate", "mutating", "unlock"} => streamMutex = t)
    /\ [](Cardinality({t \in StreamThreads : mxPc[t] = "mutating"}) <= 1)
    /\ [][DOMAIN activeStreamCallbacks' # DOMAIN activeStreamCallbacks
            => \E t \in StreamThreads : MxMutateEnd(t) /\ streamMutex = t]_vars

\* C11: a generateStream is inside its emplace while a release waits for
\* the mutex.
W_C11_Contended ==
    \E t, u \in StreamThreads :
        /\ mxPc[t] = "mutating" /\ mxOp[t] = "generateStream"
        /\ mxPc[u] = "lock" /\ mxOp[u] = "release"

-----------------------------------------------------------------------------
(* Claims about the digest and the progress reports of an extraction *)

\* C12 as stated: a successful extraction reports the SHA-256 of the whole
\* source file, the value ComputeFileSha256 returns for it.
CE_C12_DigestOfWholeFile ==
    (exPc = "done" /\ exOk) => out_sha256 = ComputeFileSha256(total_bytes)

\* C13 as stated: every on_progress call of one extraction carries a
\* percentage within 0..100 that differs from the percentage of the call
\* before it, and a successful extraction ends with the call
\* (total_bytes, total_bytes, 100).
CE_C13_PercentAlwaysChanges ==
    /\ [][exCalls' > exCalls =>
            /\ exCall'.percent \in 0..100
            /\ exCalls > 0 => exCall'.percent # exCall.percent]_vars
    /\ []((exPc = "done" /\ exOk) => exCall = ProgressCall(total_bytes, total_bytes, 100))

\* C13 as amended: every on_progress call made inside the extraction loop
\* carries a percentage within 0..100 that is greater than the percentage of
\* the call before it; a successful extraction then makes one more call,
\* (total_bytes, total_bytes, 100), whether or not 100 was reported already.
TH_C13_PercentChangesInLoop ==
    /\ [][(WriteBlock /\ exCalls' > exCalls) =>
            /\ exCall'.percent \in 0..100
            /\ exCall'.percent > exCall.percent
            /\ exCall'.percent = last_percent']_vars
    /\ [][exCalls' > exCalls => (WriteBlock \/ ExtractFinish)]_vars
    /\ [][ExtractFinish =>
            /\ exCalls' = exCalls + 1
            /\ exCall' = ProgressCall(total_bytes, total_bytes, 100)]_vars
    /\ []((exPc = "done" /\ exOk) => exCall = ProgressCall(total_bytes, total_bytes, 100))

\* C13: a successful extraction that reported two different percentages
\* inside the loop before its final call.
W_C13_SeveralReports ==
    /\ exPc = "done"
    /\ exOk
    /\ exCalls >= 3
    /\ last_percent < 100

-----------------------------------------------------------------------------
(* Claims about release() *)

\* The wrapper holds nothing: no engine, not initialized, no model directory.
SttReleased == stt_recognizer = NoEngine /\ ~stt_initialized /\ stt_modelDir = ""
TtsReleased == tts_tts = NoEngine /\ ~tts_initialized /\ tts_modelDir = ""

\* C15: a release() on either wrapper, whatever the wrapper holds, leaves
\* it with no engine, the initialized flag false and the model directory
\* empty; and a release() on a wrapper in that state changes nothing.
TH_C15_ReleaseIdempotent ==
    /\ [][(NativeSttRelease /\ g_stt_wrapper # "nullptr") => SttReleased']_vars
    /\ [][(NativeTtsRelease /\ ~g_tts_skip_next_release /\ g_tts_wrapper # "nullptr")
            => TtsReleased']_vars
    /\ [][(NativeSttRelease /\ SttReleased)
            => UNCHANGED <<stt_recognizer, sttLive, stt_initialized, stt_modelDir>>]_vars
    /\ [][(NativeTtsRelease /\ TtsReleased)
            => UNCHANGED <<tts_tts, ttsLive, tts_initialized, tts_modelDir, cbVars>>]_vars

\* C15: nativeSttRelease was the last call on the STT side, and the TTS
\* wrapper, which outlives its releases, holds nothing.
W_C15_Released ==
    /\ sttCalls = <<ReleaseCall>>
    /\ SttReleased
    /\ g_tts_wrapper = "TtsWrapper"
    /\ TtsReleased
    /\ ~g_tts_skip_next_release

-----------------------------------------------------------------------------
(* Claims about SHA-256 *)

\* C16: however the byte string was split into consecutive chunks (empty
\* chunks included), the digest sha256_final writes is the digest of one
\* sha256_update over the whole string; and the padding always ends on a
\* block boundary.
TH_C16_ChunkingInvariant ==
    shaPc = "done" =>
        /\ shaOut = Sha256Final(Sha256Update(Sha256Init, shaMsg))
        /\ shaOut.left = 0

\* C16: a string longer than two blocks was hashed in chunks, and the
\* context held a partial block when sha256_final was called.
W_C16_SplitAcrossBlocks ==
    /\ shaPc = "done"
    /\ Len(shaMsg) > 2 * BlockBytes
    /\ sha_ctx.buffer # <<>>
    /\ Len(sha_ctx.state) = 2

-----------------------------------------------------------------------------
(* Claims about model detection *)

\* The names of the files of the directory a detector was called on
NamesIn(dir) == {dir.files[i].name : i \in 1..Len(dir.files)}

SttReturned == detPc = "done" /\ detOut.fn \in {"DetectSttModel", "DetectSttModelFixedNames"}
TtsReturned == detPc = "done" /\ detOut.fn = "DetectTtsModel"
FindReturned == detPc = "done" /\ detOut.fn = "FindOnnxByToken"

\* No file of the directory is a tokens file: none is named tokens.txt or ends
\* with it, and none reads like one.
NoTokensFile(dir) == FindFileEndingWith(dir.files, Str.tokens_txt) = NoPath

\* C17 (as stated): when a detector of STT models has selected a kind and the
\* model directory holds no tokens file, detection fails with the error
\* "Tokens file not found" for every kind other than funasr_nano, and succeeds
\* for funasr_nano.
CE_C17_TokensGate ==
    (SttReturned /\ NoTokensFile(detIn.dir) /\ detOut.result.selectedKind # "unknown")
        => IF detOut.result.selectedKind = "funasr_nano"
           THEN detOut.result.ok
           ELSE ~detOut.result.ok /\ detOut.result.error = "Tokens file not found"

SizeIn(dir, name) ==
    (CHOOSE entry \in {dir.files[i] : i \in 1..Len(dir.files)} : entry.name = name).size

\* What C19 says of a lookup that returned path in a directory holding both
\* model.onnx and model.int8.onnx
AsPreferred(dir, preferInt8, path) ==
    IF preferInt8.has_value
    THEN path = (IF preferInt8.value THEN Str.model_int8_onnx ELSE Str.model_onnx)
    ELSE /\ path \in {Str.model_onnx, Str.model_int8_onnx}
         /\ SizeIn(dir, path) >= SizeIn(dir, Str.model_onnx)
         /\ SizeIn(dir, path) >= SizeIn(dir, Str.model_int8_onnx)

BothModels(dir) == {Str.model_onnx, Str.model_int8_onnx} \subseteq NamesIn(dir)

\* A detector of STT models returned the combined model file of a directory
\* that holds both
ModelChosen(fn) ==
    /\ detPc = "done"
    /\ detOut.fn = fn
    /\ BothModels(detIn.dir)
    /\ detOut.result.model # NoPath

-----------------------------------------------------------------------------
(* Claims about the audio conversion *)

\* C20 (as stated): whenever convertToWav16kMono or convertToFormat returns an
\* error, none of the native resources it allocated is still held.
CE_C20_FailureReleasesAll ==
    (cvPc = "returned" /\ cvRet # "") => cvHeld = {}

-----------------------------------------------------------------------------
(* Further claims about the extraction *)

\* A step in which archive_read_next_header hands out a header, and one in
\* which archive_read_data_block hands out a data block
HeaderIsRead == exPc = "readHeader" /\ exPc' = "pollHeader"
BlockIsRead == exPc = "readBlock" /\ exPc' = "pollBlock"

\* The two places where the flag is looked at
AtPoll == exPc \in {"pollHeader", "pollBlock"}

CE_C28_TrueOnlyAtEndOfArchive ==
    exPc = "done" =>
        /\ exOk => exResult = "eof"
        /\ exResult = "error" => (~exOk /\ exError # "")

\* C30: every return of ExtractTarBz2 leaves the source file closed, the
\* archive reader freed and the disk writer freed.
CE_C30_ReturnsReleaseAll ==
    exPc = "done" => (~fileOpen /\ ~readerAlloc /\ ~diskAlloc)

-----------------------------------------------------------------------------
(* Claims about automatic detection *)

\* DetectSttModel has returned from a call with no model type or "auto"
AutoReturned ==
    /\ detPc = "done"
    /\ detOut.fn = "DetectSttModel"
    /\ detIn.dir.name # NoPath
    /\ ~detIn.modelType.has_value \/ detIn.modelType.value = "auto"

\* The kinds in the order of priority, a family of kinds where the name of
\* the directory tells its members apart
PriorityKinds ==
    << {"transducer", "nemo_transducer"}, {"nemo_ctc", "wenet_ctc", "sense_voice"},
       {"funasr_nano"}, {"paraformer"}, {"whisper"}, {"funasr_nano"}, {"moonshine"},
       {"dolphin"}, {"fire_red_asr"}, {"canary"}, {"omnilingual"}, {"medasr"},
       {"telespeech_ctc"}, {"zipformer_ctc"} >>

\* The presence tests in the same order
PresenceTests(f, has) ==
    << has.hasTransducer,
       f.ctcModelPath # NoPath
           /\ (has.isLikelyNemo \/ has.isLikelyWenetCtc \/ has.isLikelySenseVoice),
       has.hasFunAsrNano /\ has.isLikelyFunAsrNano,
       f.paraformerModelPath # NoPath,
       has.hasWhisper,
       has.hasFunAsrNano,
       has.hasMoonshine /\ has.isLikelyMoonshine,
       has.hasDolphin,
       has.hasFireRedAsr,
       has.hasCanary,
       has.hasOmnilingual,
       has.hasMedAsr,
       has.hasTeleSpeechCtc,
       f.ctcModelPath # NoPath >>

FirstHolding(tests) ==
    LET hits == {i \in 1..Len(tests) : tests[i]}
    IN IF hits = {} THEN 0 ELSE CHOOSE i \in hits : \A j \in hits : i <= j

TestsOf(dir, f) == PresenceTests(f, SttHas(dir, f))

Configured == detPc = "configured" /\ detOut.fn = "SttWrapper::initialize"

\* C24 (as stated): when DetectSttModel has returned ok = true, with whatever
\* kind selected, SttWrapper::initialize goes on to construct the engine and
\* does not fail with "No compatible model type detected".
CE_C24_DetectedKindsConfigured ==
    (Configured /\ detOut.result.detect.ok)
        => (detOut.result.creates
            /\ detOut.result.error # "No compatible model type detected")

\* The kinds of the chain of automatic detection
AutoKinds == UNION {PriorityKinds[i] : i \in 1..Len(PriorityKinds)}

\* The kinds automatic detection selects on the directories dirs
AutoSelected(dirs) ==
    {DetectSttModel(dir, NoPreference, NoModelType).selectedKind : dir \in dirs}

\* C29 (as stated): for each kind of the chain there is a model directory, a
\* set of files under a directory name, on which automatic detection selects
\* that kind.
CE_C29_EveryKindSelectable ==
    detPc = "idle" => AutoKinds \subseteq AutoSelected(AutoDirs(AutoDirNames))

-----------------------------------------------------------------------------
(* Further claims about the TTS wrapper and its streams *)

\* The call on thread t is inside OfflineTts::Generate
Generating(t) == gsPc[t] \in {"gen", "genStop"}

\* C23 (as stated): no engine object of the TTS wrapper is destroyed, by
\* nativeTtsRelease or by the release step of nativeTtsInitialize, while a
\* nativeTtsGenerateStream call is inside Generate on it.  (A call enters
\* Generate on the engine the wrapper holds, so the first engine destroyed
\* with a call inside Generate is the one that call runs on.)
CE_C23_EngineOutlivesGenerate ==
    [][(\E t \in StreamThreads : Generating(t)) => ttsLive \subseteq ttsLive']_vars

\* The wrapper holds an engine object whose native handle is not null
HoldsEngine(held, live) == held \notin {NoEngine, NullHandle} /\ held \in live

\* The last call on the STT wrapper was an initialize that failed
SttInitFailed ==
    /\ sttCalls # <<>>
    /\ sttCalls[Len(sttCalls)].op = "init"
    /\ ~sttCalls[Len(sttCalls)].ok

\* C25: between calls the initialized flag of a wrapper is true exactly when
\* the wrapper holds an engine object with a non-null handle, and an
\* initialize call that fails leaves the wrapper uninitialized and without
\* an engine object, whatever it held before.
TH_C25_InitializedIffEngine ==
    /\ [](brPc = "idle" =>
            /\ stt_initialized <=> HoldsEngine(stt_recognizer, sttLive)
            /\ tts_initialized <=> HoldsEngine(tts_tts, ttsLive)
            /\ ~stt_initialized => stt_recognizer = NoEngine
            /\ ~tts_initialized => tts_tts = NoEngine)
    /\ []((brPc = "idle" /\ SttInitFailed)
            => (~stt_initialized /\ stt_recognizer = NoEngine /\ sttLive = {}))
    /\ [][((TtsInitBegin \/ TtsCreate \/ TtsAssign) /\ brPc' = "idle"
               /\ ~(TtsAssign /\ brTemp # NullHandle))
            => (~tts_initialized' /\ tts_tts' = NoEngine /\ ttsLive' = {})]_vars

\* C25: an initialize call has failed on the STT wrapper that the call
\* before it had initialized; the wrapper holds nothing.
W_C25_FailedAfterSuccess ==
    /\ brPc = "idle"
    /\ TwoInits(sttCalls)
    /\ sttCalls[1].ok
    /\ ~sttCalls[2].ok
    /\ ~stt_initialized
    /\ stt_recognizer = NoEngine

\* Of the chunks delivered, one carries isFinal and it is the last
OneFinalAndLast(chunks) ==
    /\ chunks # <<>>
    /\ chunks[Len(chunks)]
    /\ \A i \in 1..(Len(chunks) - 1) : ~chunks[i]

\* C26: when nativeTtsGenerateStream returns true and the stream was not
\* cancelled, exactly one onTtsStreamChunk invocation of the stream carried
\* isFinal = true, and it was the last chunk delivered.
CE_C26_OneFinalChunkLast ==
    [][\A t \in StreamThreads :
          (/\ gsPc[t] \in {"gen", "genStop"}
           /\ gsPc'[t] = "idle"
           /\ ~gsCancelled[t]
           /\ ~g_tts_stream_cancelled)
          => OneFinalAndLast(gsDelivered[t])]_vars

\* The nativeTtsGenerateStream call of thread t returns in this step
GsReturns(t) == gsPc[t] \in {"gen", "genStop", "failed"} /\ gsPc'[t] = "idle"

\* C27: when nativeTtsGenerateStream returns, after success, failure or
\* cancellation, the callback map of the wrapper holds no entry under the id
\* of that stream.
CE_C27_NoEntryAfterReturn ==
    [][\A t \in StreamThreads :
          GsReturns(t) => gsStreamId[t] \notin DOMAIN activeStreamCallbacks']_vars

====
